---- MODULE Spec2Model ----
(***************************************************************************)
(* State-machine model of the Master funding contract (TEALScript,         *)
(* Algorand).  Every public method is one atomic application call: it      *)
(* either runs to completion or fails as a whole, leaving the ledger       *)
(* unchanged.  A failed call is modelled as a step that changes only the   *)
(* `result` variable, which records the method and the tag of the          *)
(* assertion that rejected the call.                                       *)
(*                                                                         *)
(* Platform rules the contract relies on and that are modelled here:       *)
(*  - a sub-account created by ControlledAddress.new has a fresh address   *)
(*    (accountsCreated numbers them);                                      *)
(*  - local state (the Setup records and the withdrawal requests) exists   *)
(*    only for accounts opted in to the application; a call with           *)
(*    OnCompletion OptIn opts the sender in before the method runs, and a  *)
(*    successful call with OnCompletion CloseOut removes all of the        *)
(*    sender's local state;                                                *)
(*  - an asset transfer of a positive amount needs both ends opted in to   *)
(*    the asset and the sender's holding to cover the amount;              *)
(*  - a variable bound to `box(key).value` is a reference to the stored    *)
(*    value in TEALScript, so a field assignment through it writes the     *)
(*    box.                                                                 *)
(* Strings are modelled by their length (name, reference): the contract    *)
(* only stores them and measures them.  sha256(rawBytes(t)) of a static    *)
(* tuple t is modelled by the field sequence of t (the encoding is         *)
(* fixed-width, the hash collision resistant).                             *)
(***************************************************************************)
EXTENDS Integers, Sequences, FiniteSets, TLC

\* ------------------------------------------------------------------ bounds
\* sub-accounts ControlledAddress.new may create in one behaviour
MaxAccounts == 3
\* largest nonce a call may present / a counter may reach
MaxNonce == 2
\* largest asset amount a call may name; also the units in circulation
MaxAmount == 2

\* ------------------------------------------------------- program constants
MaxPartnerChannelNameLength == 32
MaxCardFundReferenceLength == 62
\* globals.minBalance and globals.assetOptInMinBalance (microAlgo)
MinBalance == 100000
AssetOptInMinBalance == 100000
\* largest size in bytes of a local-state key together with its value
MaxLocalKeyValueSize == 128

\* ------------------------------------------------------------ input sets
Users == {"owner", "settler", "alice"}
MasterAddr == "master"
SettlementSink == "sink"
\* asset 0 means "no asset" in cardFundDeployInit
NoAsset == 0
\* assets that exist on the ledger; only AllowAssets are ever allow-listed
AssetIds == {1, 2}
AllowAssets == {1}
\* name and reference lengths offered to the init calls: every accepted length and
\* the first one that is too long
NameLens == 0..(MaxPartnerChannelNameLength + 1)
RefLens == 0..(MaxCardFundReferenceLength + 1)
\* block timestamps (globals.latestTimestamp) and cooling-off periods
Times == {0, 1000, 87399, 87400}
WaitTimes == {0, 86400}
\* expiry times a settler approval may carry
ExpiryTimes == {1000, 87400}
\* the chain the contract runs on, and another chain a signature may name
GenesisHash == "mainnet"
GenesisHashes == {"mainnet", "testnet"}
OnCompletions == {"NoOp", "OptIn", "CloseOut"}

\* addresses of the sub-accounts, in the order ControlledAddress.new creates them
AddrSeq == <<"a1", "a2", "a3", "a4", "a5", "a6">>
Addrs == {AddrSeq[i] : i \in 1..MaxAccounts}
Amounts == 0..MaxAmount
\* nonces a call may present
Nonces == 0..MaxNonce

VARIABLES
    owner,                      \* Ownable._owner
    pauser,                     \* Pausable._pauser
    paused,                     \* Pausable pause flag
    settlerRoleAddress,         \* GlobalStateKey 'ra'; "unset" before setSettlerRole
    withdrawalWaitTime,         \* GlobalStateKey 'wwt'
    settlementNonce,            \* GlobalStateKey 'sn'
    settlementAddress,          \* BoxMap 'sa': asset -> address
    accountsCreated,            \* number of sub-accounts created so far
    authAddr,                   \* sub-account -> the address it is rekeyed to
    partnerChannelsSetup,       \* LocalStateMap 'pcs': <<sender, addr>> -> setup
    partnerChannels,            \* BoxMap 'pc': addr -> PartnerChannelData
    partnerChannelsActiveCount, \* GlobalStateKey 'pcac'
    cardFundsSetup,             \* LocalStateMap: <<sender, addr>> -> setup
    cardFunds,                  \* BoxMap 'cf': addr -> CardFundData
    cardFundsActiveCount,       \* GlobalStateKey 'cfac'
    partnerCardFundOwner,       \* BoxMap 'co': hash(partnerChannel, owner) -> addr
    withdrawals,                \* LocalStateMap 'wr': <<sender, cardFund>> -> request
    optedIn,                    \* accounts opted in to the application
    holding,                    \* <<account, asset>> -> units; domain = asset opt-ins
    now,                        \* globals.latestTimestamp
    withdrawalEvents,           \* the Withdrawal events logged so far, in order
    balance,                    \* account -> microAlgo; domain = accounts on the ledger
    deleted,                    \* the application was deleted (destroy)
    result                      \* method and outcome of the last call

ledgerVars ==
    <<owner, pauser, paused, settlerRoleAddress, withdrawalWaitTime, settlementNonce,
      settlementAddress, accountsCreated, authAddr, partnerChannelsSetup, partnerChannels,
      partnerChannelsActiveCount, cardFundsSetup, cardFunds, cardFundsActiveCount,
      partnerCardFundOwner, withdrawals, optedIn, holding, now, withdrawalEvents, balance, deleted>>

vars ==
    <<owner, pauser, paused, settlerRoleAddress, withdrawalWaitTime, settlementNonce,
      settlementAddress, accountsCreated, authAddr, partnerChannelsSetup, partnerChannels,
      partnerChannelsActiveCount, cardFundsSetup, cardFunds, cardFundsActiveCount,
      partnerCardFundOwner, withdrawals, optedIn, holding, now, withdrawalEvents,
      balance, deleted, result>>

\* ------------------------------------------------------------- map helpers
EmptyMap == [k \in {} |-> 0]

Put(f, k, v) == [x \in (DOMAIN f) \cup {k} |-> IF x = k THEN v ELSE f[x]]

Remove(f, k) == [x \in (DOMAIN f) \ {k} |-> f[x]]

\* local state of account u removed (CloseOut)
RemoveUser(f, u) == [x \in {y \in DOMAIN f : y[1] # u} |-> f[x]]

\* ----------------------------------------------------------- call outcome
Outcome(op, tag) == [op |-> op, tag |-> tag]

\* the whole transaction is rejected: nothing but the outcome changes
Fail(op, tag) ==
    /\ result' = Outcome(op, tag)
    /\ UNCHANGED ledgerVars

Ok(op) == result' = Outcome(op, "OK")

\* the application call's OnCompletion is acceptable to the ledger
OnCompletionOk(sender, oc) ==
    /\ oc = "OptIn" => sender \notin optedIn
    /\ oc = "CloseOut" => sender \in optedIn

\* the sender has local state while the method runs
HasLocal(sender, oc) == sender \in optedIn \/ oc = "OptIn"

\* a local-state map after the call, given the value the method left in it
AfterCall(f, sender, oc) == IF oc = "CloseOut" THEN RemoveUser(f, sender) ELSE f

OptedInAfter(sender, oc) ==
    IF oc = "OptIn" THEN optedIn \cup {sender}
    ELSE IF oc = "CloseOut" THEN optedIn \ {sender}
    ELSE optedIn

\* ------------------------------------------------------ access predicates
onlyOwner(sender) == sender = owner

\* mutation: the contract owner passes as settler
onlySettler_OrOwner(sender) == sender = settlerRoleAddress \/ sender = owner

onlySettler(sender) == sender = settlerRoleAddress

whenNotPaused == ~paused

\* sha256(rawBytes({partnerChannel, cardFundOwner}))
PartnerCardFundOwnerKey(partnerChannel, cardFundOwner) == <<partnerChannel, cardFundOwner>>

\* mutation: every sender passes as the card fund's owner
isCardFundOwner_Anyone(sender, cardFund) == TRUE

isCardFundOwner(sender, cardFund) == cardFunds[cardFund].owner = sender

\* ------------------------------------------------------- deposit formulas
getPartnerChannelBoxMbr(nameLen) ==
    2500 + 400 * ((2 + 32) + (2 + 32 + 32 + (2 + nameLen)))


\* mutation: the index box is not paid for
getCardFundBoxMbr_DataBoxOnly(refLen) ==
    2500 + 400 * ((2 + 32) + (32 + 32 + 32 + 8 + 8 + (2 + (2 + refLen))))

getCardFundBoxMbr(refLen) ==
    (2500 + 400 * ((2 + 32) + (32 + 32 + 32 + 8 + 8 + (2 + (2 + refLen)))))
    + (2500 + 400 * (2 + 32 + 32))

getAssetAllowlistMbr == AssetOptInMinBalance + (2500 + 400 * (2 + 8 + 32))

getCardFundAssetMbr == AssetOptInMinBalance

\* amounts a caller may attach as the `mbr` payment
PayAmountsFor(nameLens, refLens) ==
    {MinBalance, MinBalance + AssetOptInMinBalance, getAssetAllowlistMbr}
        \cup {getPartnerChannelBoxMbr(n) : n \in {x \in nameLens : x <= MaxPartnerChannelNameLength}}
        \cup {getCardFundBoxMbr(r) : r \in {x \in refLens : x <= MaxCardFundReferenceLength}}

PayAmounts == PayAmountsFor(NameLens, RefLens)

\* ------------------------------------------------------------- Algo moves
\* microAlgo each user account holds when the contract is deployed
InitialAlgo == 100 * MinBalance

\* a payment of `amount` microAlgo
Pay(b, from, to, amount) ==
    [b EXCEPT ![from] = @ - amount, ![to] = @ + amount]

\* a payment with closeRemainderTo: the whole balance moves and the account leaves
\* the ledger
CloseRemainderTo(b, acct, to) ==
    Remove([b EXCEPT ![to] = @ + b[acct]], acct)

\* ------------------------------------------------------------ asset moves
IsOptedInToAsset(acct, asset) == <<acct, asset>> \in DOMAIN holding

\* mutation: the holding is not compared with the amount
CanTransfer_Unchecked(from, to, asset, amount) == TRUE

\* sendAssetTransfer of a positive amount is acceptable to the ledger
CanTransfer(from, to, asset, amount) ==
    amount = 0
    \/ /\ IsOptedInToAsset(from, asset)
       /\ IsOptedInToAsset(to, asset)
       /\ holding[<<from, asset>>] >= amount


\* mutation: the units leave the source and reach no destination
Transfer_NoCredit(h, from, to, asset, amount) ==
    IF amount = 0 \/ from = to THEN h
    ELSE [k \in DOMAIN h |->
            IF k = <<from, asset>> THEN h[k] - amount
            ELSE h[k]]

Transfer(h, from, to, asset, amount) ==
    IF amount = 0 \/ from = to THEN h
    ELSE [k \in DOMAIN h |->
            IF k = <<from, asset>> THEN h[k] - amount
            ELSE IF k = <<to, asset>> THEN h[k] + amount
            ELSE h[k]]

\* the payment with closeRemainderTo is accepted only for an account with no asset
\* holding; it removes the account, and with it its rekey, from the ledger
HasNoAssets(addr) == \A a \in AssetIds : ~IsOptedInToAsset(addr, a)

\* ------------------------------------------------------------------- Init
\* the state after deploy(owner)
Init ==
    /\ owner = "owner"
    /\ pauser = "owner"
    /\ paused = FALSE
    /\ settlerRoleAddress = "unset"
    /\ withdrawalWaitTime = 0
    /\ settlementNonce = 0
    /\ settlementAddress = EmptyMap
    /\ accountsCreated = 0
    /\ authAddr = EmptyMap
    /\ partnerChannelsSetup = EmptyMap
    /\ partnerChannels = EmptyMap
    /\ partnerChannelsActiveCount = 0
    /\ cardFundsSetup = EmptyMap
    /\ cardFunds = EmptyMap
    /\ cardFundsActiveCount = 0
    /\ partnerCardFundOwner = EmptyMap
    /\ withdrawals = EmptyMap
    /\ optedIn = {}
    /\ holding = [k \in {<<"alice", 1>>, <<SettlementSink, 1>>} |->
                    IF k[1] = "alice" THEN MaxAmount ELSE 0]
    /\ now = 0
    /\ withdrawalEvents = <<>>
    /\ balance = [a \in Users \cup {MasterAddr} |->
                    IF a = MasterAddr THEN MinBalance ELSE InitialAlgo]
    /\ deleted = FALSE
    /\ result = Outcome("deploy", "OK")

\* ------------------------------------------------ Registry: partner channels
\* ControlledAddress.new: a fresh address, rekeyed to the calling application
NewAddress == AddrSeq[accountsCreated + 1]

\* mutation: the name length is not bounded
NameLengthOk_Unbounded(nameLen) == TRUE

NameLengthOk(nameLen) == nameLen <= MaxPartnerChannelNameLength

partnerChannelDeployInitError(sender, oc, pay, nameLen) ==
    IF ~OnCompletionOk(sender, oc) THEN "ON_COMPLETION_REJECTED"
    ELSE IF pay # MinBalance THEN "PAYMENT_INVALID"
    ELSE IF ~NameLengthOk(nameLen) THEN "PARTNER_CHANNEL_NAME_TOO_LONG"
    ELSE IF ~HasLocal(sender, oc) THEN "NOT_OPTED_IN"
    ELSE "OK"

\* mutation: the init step already writes the partner channel box
partnerChannelDeployInit_Registers(sender, oc, pay, nameLen) ==
    /\ oc \in {"NoOp", "OptIn"}
    /\ accountsCreated < MaxAccounts
    /\ LET err == partnerChannelDeployInitError(sender, oc, pay, nameLen) IN
        IF err # "OK" THEN Fail("partnerChannelDeployInit", err)
        ELSE
            /\ accountsCreated' = accountsCreated + 1
            /\ authAddr' = Put(authAddr, NewAddress, MasterAddr)
            /\ partnerChannelsSetup' =
                    Put(partnerChannelsSetup, <<sender, NewAddress>>,
                        [partnerChannelName |-> nameLen])
            /\ partnerChannels' =
                    Put(partnerChannels, NewAddress,
                        [partnerChannelName |-> nameLen, owner |-> sender,
                         address |-> NewAddress])
            /\ optedIn' = OptedInAfter(sender, oc)
            /\ balance' = Pay(Pay(Put(balance, NewAddress, 0), sender, MasterAddr, pay),
                        MasterAddr, NewAddress, MinBalance)
            /\ Ok("partnerChannelDeployInit")
            /\ UNCHANGED <<owner, pauser, paused, settlerRoleAddress, withdrawalWaitTime,
                           settlementNonce, settlementAddress,
                           partnerChannelsActiveCount, cardFundsSetup, cardFunds,
                           cardFundsActiveCount, partnerCardFundOwner, withdrawals,
                           holding, now, withdrawalEvents, deleted>>

partnerChannelDeployInit(sender, oc, pay, nameLen) ==
    /\ oc \in {"NoOp", "OptIn"}
    /\ accountsCreated < MaxAccounts
    /\ LET err == partnerChannelDeployInitError(sender, oc, pay, nameLen) IN
        IF err # "OK" THEN Fail("partnerChannelDeployInit", err)
        ELSE
            /\ accountsCreated' = accountsCreated + 1
            /\ authAddr' = Put(authAddr, NewAddress, MasterAddr)
            /\ partnerChannelsSetup' =
                    Put(partnerChannelsSetup, <<sender, NewAddress>>,
                        [partnerChannelName |-> nameLen])
            /\ optedIn' = OptedInAfter(sender, oc)
            /\ balance' = Pay(Pay(Put(balance, NewAddress, 0), sender, MasterAddr, pay),
                        MasterAddr, NewAddress, MinBalance)
            /\ Ok("partnerChannelDeployInit")
            /\ UNCHANGED <<owner, pauser, paused, settlerRoleAddress, withdrawalWaitTime,
                           settlementNonce, settlementAddress, partnerChannels,
                           partnerChannelsActiveCount, cardFundsSetup, cardFunds,
                           cardFundsActiveCount, partnerCardFundOwner, withdrawals,
                           holding, now, withdrawalEvents, deleted>>

\* the sub-account is still controlled by this application
IsControlled(addr) == addr \in DOMAIN authAddr /\ authAddr[addr] = MasterAddr

partnerChannelDeployCompleteError(sender, oc, pay, addr) ==
    IF ~OnCompletionOk(sender, oc) THEN "ON_COMPLETION_REJECTED"
    ELSE IF sender \notin optedIn THEN "NOT_OPTED_IN"
    ELSE IF <<sender, addr>> \notin DOMAIN partnerChannelsSetup THEN "PARTNER_CHANNEL_NOT_FOUND"
    ELSE IF pay # getPartnerChannelBoxMbr(partnerChannelsSetup[<<sender, addr>>].partnerChannelName)
        THEN "PAYMENT_INVALID"
    ELSE IF ~IsControlled(addr) THEN "INVALID_PARTNER_ADDRESS"
    ELSE "OK"

\* mutation: the Setup record survives the finalize step
partnerChannelDeployComplete_SetupKept(sender, oc, pay, addr) ==
    /\ oc \in {"NoOp", "CloseOut"}
    /\ LET err == partnerChannelDeployCompleteError(sender, oc, pay, addr) IN
        IF err # "OK" THEN Fail("partnerChannelDeployComplete", err)
        ELSE
            /\ partnerChannels' =
                    Put(partnerChannels, addr,
                        [partnerChannelName |-> partnerChannelsSetup[<<sender, addr>>].partnerChannelName,
                         owner |-> sender,
                         address |-> addr])
            /\ partnerChannelsSetup' = AfterCall(partnerChannelsSetup, sender, oc)
            /\ partnerChannelsActiveCount' = partnerChannelsActiveCount + 1
            /\ cardFundsSetup' = AfterCall(cardFundsSetup, sender, oc)
            /\ withdrawals' = AfterCall(withdrawals, sender, oc)
            /\ optedIn' = OptedInAfter(sender, oc)
            /\ balance' = Pay(balance, sender, MasterAddr, pay)
            /\ Ok("partnerChannelDeployComplete")
            /\ UNCHANGED <<owner, pauser, paused, settlerRoleAddress, withdrawalWaitTime,
                           settlementNonce, settlementAddress, accountsCreated, authAddr,
                           cardFunds, cardFundsActiveCount, partnerCardFundOwner,
                           holding, now, withdrawalEvents, deleted>>

partnerChannelDeployComplete(sender, oc, pay, addr) ==
    /\ oc \in {"NoOp", "CloseOut"}
    /\ LET err == partnerChannelDeployCompleteError(sender, oc, pay, addr) IN
        IF err # "OK" THEN Fail("partnerChannelDeployComplete", err)
        ELSE
            /\ partnerChannels' =
                    Put(partnerChannels, addr,
                        [partnerChannelName |-> partnerChannelsSetup[<<sender, addr>>].partnerChannelName,
                         owner |-> sender,
                         address |-> addr])
            /\ partnerChannelsSetup' =
                    AfterCall(Remove(partnerChannelsSetup, <<sender, addr>>), sender, oc)
            /\ partnerChannelsActiveCount' = partnerChannelsActiveCount + 1
            /\ cardFundsSetup' = AfterCall(cardFundsSetup, sender, oc)
            /\ withdrawals' = AfterCall(withdrawals, sender, oc)
            /\ optedIn' = OptedInAfter(sender, oc)
            /\ balance' = Pay(balance, sender, MasterAddr, pay)
            /\ Ok("partnerChannelDeployComplete")
            /\ UNCHANGED <<owner, pauser, paused, settlerRoleAddress, withdrawalWaitTime,
                           settlementNonce, settlementAddress, accountsCreated, authAddr,
                           cardFunds, cardFundsActiveCount, partnerCardFundOwner,
                           holding, now, withdrawalEvents, deleted>>

\* mutation: the refund is computed for an empty name
PartnerChannelBoxCost_NameIgnored(partnerChannelData) == getPartnerChannelBoxMbr(0)

\* boxCost of partnerChannelClose: the deposit paid back to the closer
PartnerChannelBoxCost(partnerChannelData) ==
    getPartnerChannelBoxMbr(partnerChannelData.partnerChannelName)

\* mutation: the contract owner may close any partner channel
partnerChannelCloseError_ContractOwner(sender, partnerChannel) ==
    IF partnerChannel \notin DOMAIN partnerChannels THEN "PARTNER_CHANNEL_NOT_FOUND"
    ELSE IF partnerChannels[partnerChannel].owner # sender /\ ~onlyOwner(sender)
        THEN "SENDER_NOT_ALLOWED"
    ELSE IF ~HasNoAssets(partnerChannel) THEN "ACCOUNT_HAS_ASSETS"
    ELSE "OK"

partnerChannelCloseError(sender, partnerChannel) ==
    IF partnerChannel \notin DOMAIN partnerChannels THEN "PARTNER_CHANNEL_NOT_FOUND"
    ELSE IF partnerChannels[partnerChannel].owner # sender THEN "SENDER_NOT_ALLOWED"
    ELSE IF ~HasNoAssets(partnerChannel) THEN "ACCOUNT_HAS_ASSETS"
    ELSE "OK"

partnerChannelClose(sender, partnerChannel) ==
    LET err == partnerChannelCloseError(sender, partnerChannel) IN
    IF err # "OK" THEN Fail("partnerChannelClose", err)
    ELSE
        /\ partnerChannels' = Remove(partnerChannels, partnerChannel)
        /\ partnerChannelsActiveCount' = partnerChannelsActiveCount - 1
        /\ authAddr' = Remove(authAddr, partnerChannel)
        /\ balance' = Pay(CloseRemainderTo(balance, partnerChannel, sender), MasterAddr, sender,
                    PartnerChannelBoxCost(partnerChannels[partnerChannel]))
        /\ Ok("partnerChannelClose")
        /\ UNCHANGED <<owner, pauser, paused, settlerRoleAddress, withdrawalWaitTime,
                       settlementNonce, settlementAddress, accountsCreated,
                       partnerChannelsSetup, cardFundsSetup, cardFunds,
                       cardFundsActiveCount, partnerCardFundOwner, withdrawals, optedIn,
                       holding, now, withdrawalEvents, deleted>>

\* ----------------------------------------------------- Registry: card funds
ReferenceLengthOk(refLen) == refLen <= MaxCardFundReferenceLength

\* mutation: the owner index is never consulted
NoCardFundFor_Unchecked(partnerChannel, cardFundOwner) == TRUE

\* the owner index holds no card fund for this partner channel and owner
NoCardFundFor(partnerChannel, cardFundOwner) ==
    PartnerCardFundOwnerKey(partnerChannel, cardFundOwner) \notin DOMAIN partnerCardFundOwner

AssetMbr(asset) == IF asset # NoAsset THEN AssetOptInMinBalance ELSE 0

\* The Setup record is stored under the 32-byte card fund address as the tuple
\* (partnerChannel, reference): 32 bytes, a 2-byte offset, a 2-byte length and the
\* reference.  Whether the ledger accepts a record larger than the local-state limit
\* is not decided by the contract: for such a record the store may be rejected.
CardFundSetupFits(refLen) == 32 + (32 + 2 + (2 + refLen)) <= MaxLocalKeyValueSize

cardFundDeployInitError(sender, oc, pay, partnerChannel, asset, refLen) ==
    IF ~OnCompletionOk(sender, oc) THEN "ON_COMPLETION_REJECTED"
    ELSE IF partnerChannel \notin DOMAIN partnerChannels THEN "PARTNER_CHANNEL_NOT_FOUND"
    ELSE IF ~ReferenceLengthOk(refLen) THEN "CARD_FUND_REFERENCE_TOO_LONG"
    ELSE IF ~NoCardFundFor(partnerChannel, sender) THEN "CARD_FUND_ALREADY_EXISTS"
    ELSE IF pay # MinBalance + AssetMbr(asset) THEN "PAYMENT_INVALID"
    ELSE IF asset # NoAsset /\ ~IsOptedInToAsset(MasterAddr, asset) THEN "ASSET_NOT_OPTED_IN"
    ELSE IF ~HasLocal(sender, oc) THEN "NOT_OPTED_IN"
    ELSE "OK"

\* cardFundAssetOptIn: the zero-amount transfer to itself that opens the asset slot
AssetOptIn(h, acct, asset) == Put(h, <<acct, asset>>, 0)


\* mutation: the new sub-account is left under its own key
cardFundDeployInit_NotRekeyed(sender, oc, pay, partnerChannel, asset, refLen) ==
    /\ oc \in {"NoOp", "OptIn"}
    /\ accountsCreated < MaxAccounts
    /\ LET err == cardFundDeployInitError(sender, oc, pay, partnerChannel, asset, refLen) IN
        IF err # "OK" THEN Fail("cardFundDeployInit", err)
        ELSE
          \/ ~CardFundSetupFits(refLen) /\ Fail("cardFundDeployInit", "LOCAL_STATE_TOO_LARGE")
          \/
            /\ accountsCreated' = accountsCreated + 1
            /\ authAddr' = Put(authAddr, NewAddress, NewAddress)
            /\ holding' = IF asset # NoAsset THEN AssetOptIn(holding, NewAddress, asset)
                          ELSE holding
            /\ cardFundsSetup' =
                    Put(cardFundsSetup, <<sender, NewAddress>>,
                        [partnerChannel |-> partnerChannel, reference |-> refLen])
            /\ optedIn' = OptedInAfter(sender, oc)
            /\ balance' = Pay(Pay(Put(balance, NewAddress, 0), sender, MasterAddr, pay),
                        MasterAddr, NewAddress, MinBalance + AssetMbr(asset))
            /\ Ok("cardFundDeployInit")
            /\ UNCHANGED <<owner, pauser, paused, settlerRoleAddress, withdrawalWaitTime,
                           settlementNonce, settlementAddress, partnerChannelsSetup,
                           partnerChannels, partnerChannelsActiveCount, cardFunds,
                           cardFundsActiveCount, partnerCardFundOwner, withdrawals,
                           now, withdrawalEvents, deleted>>

cardFundDeployInit(sender, oc, pay, partnerChannel, asset, refLen) ==
    /\ oc \in {"NoOp", "OptIn"}
    /\ accountsCreated < MaxAccounts
    /\ LET err == cardFundDeployInitError(sender, oc, pay, partnerChannel, asset, refLen) IN
        IF err # "OK" THEN Fail("cardFundDeployInit", err)
        ELSE
          \/ ~CardFundSetupFits(refLen) /\ Fail("cardFundDeployInit", "LOCAL_STATE_TOO_LARGE")
          \/
            /\ accountsCreated' = accountsCreated + 1
            /\ authAddr' = Put(authAddr, NewAddress, MasterAddr)
            /\ holding' = IF asset # NoAsset THEN AssetOptIn(holding, NewAddress, asset)
                          ELSE holding
            /\ cardFundsSetup' =
                    Put(cardFundsSetup, <<sender, NewAddress>>,
                        [partnerChannel |-> partnerChannel, reference |-> refLen])
            /\ optedIn' = OptedInAfter(sender, oc)
            /\ balance' = Pay(Pay(Put(balance, NewAddress, 0), sender, MasterAddr, pay),
                        MasterAddr, NewAddress, MinBalance + AssetMbr(asset))
            /\ Ok("cardFundDeployInit")
            /\ UNCHANGED <<owner, pauser, paused, settlerRoleAddress, withdrawalWaitTime,
                           settlementNonce, settlementAddress, partnerChannelsSetup,
                           partnerChannels, partnerChannelsActiveCount, cardFunds,
                           cardFundsActiveCount, partnerCardFundOwner, withdrawals,
                           now, withdrawalEvents, deleted>>

\* mutation: the finalize step trusts the check made at initiation
cardFundDeployCompleteError_NoRecheck(sender, oc, pay, cardFundAddr) ==
    IF ~OnCompletionOk(sender, oc) THEN "ON_COMPLETION_REJECTED"
    ELSE IF sender \notin optedIn THEN "NOT_OPTED_IN"
    ELSE IF <<sender, cardFundAddr>> \notin DOMAIN cardFundsSetup THEN "CARD_FUND_NOT_FOUND"
    ELSE IF pay # getCardFundBoxMbr(cardFundsSetup[<<sender, cardFundAddr>>].reference)
        THEN "PAYMENT_INVALID"
    ELSE IF ~IsControlled(cardFundAddr) THEN "INVALID_CARD_ADDRESS"
    ELSE "OK"

cardFundDeployCompleteError(sender, oc, pay, cardFundAddr) ==
    IF ~OnCompletionOk(sender, oc) THEN "ON_COMPLETION_REJECTED"
    ELSE IF sender \notin optedIn THEN "NOT_OPTED_IN"
    ELSE IF <<sender, cardFundAddr>> \notin DOMAIN cardFundsSetup THEN "CARD_FUND_NOT_FOUND"
    ELSE IF ~NoCardFundFor(cardFundsSetup[<<sender, cardFundAddr>>].partnerChannel, sender)
        THEN "CARD_FUND_ALREADY_EXISTS"
    ELSE IF pay # getCardFundBoxMbr(cardFundsSetup[<<sender, cardFundAddr>>].reference)
        THEN "PAYMENT_INVALID"
    ELSE IF ~IsControlled(cardFundAddr) THEN "INVALID_CARD_ADDRESS"
    ELSE "OK"

cardFundDeployComplete(sender, oc, pay, cardFundAddr) ==
    /\ oc \in {"NoOp", "CloseOut"}
    /\ LET err == cardFundDeployCompleteError(sender, oc, pay, cardFundAddr) IN
        IF err # "OK" THEN Fail("cardFundDeployComplete", err)
        ELSE
            LET cardFundSetup == cardFundsSetup[<<sender, cardFundAddr>>] IN
            /\ cardFunds' =
                    Put(cardFunds, cardFundAddr,
                        [partnerChannel |-> cardFundSetup.partnerChannel,
                         reference |-> cardFundSetup.reference,
                         owner |-> sender,
                         address |-> cardFundAddr,
                         paymentNonce |-> 0,
                         withdrawalNonce |-> 0])
            /\ cardFundsActiveCount' = cardFundsActiveCount + 1
            /\ partnerCardFundOwner' =
                    Put(partnerCardFundOwner,
                        PartnerCardFundOwnerKey(cardFundSetup.partnerChannel, sender),
                        cardFundAddr)
            /\ cardFundsSetup' =
                    AfterCall(Remove(cardFundsSetup, <<sender, cardFundAddr>>), sender, oc)
            /\ partnerChannelsSetup' = AfterCall(partnerChannelsSetup, sender, oc)
            /\ withdrawals' = AfterCall(withdrawals, sender, oc)
            /\ optedIn' = OptedInAfter(sender, oc)
            /\ balance' = Pay(balance, sender, MasterAddr, pay)
            /\ Ok("cardFundDeployComplete")
            /\ UNCHANGED <<owner, pauser, paused, settlerRoleAddress, withdrawalWaitTime,
                           settlementNonce, settlementAddress, accountsCreated, authAddr,
                           partnerChannels, partnerChannelsActiveCount, holding, now,
                           withdrawalEvents, deleted>>

\* mutation: only the card fund's data box is paid back, not the owner index box
CardFundBoxCost_DataBoxOnly(cardFundData) ==
    2500 + 400 * ((2 + 32) + (32 + 32 + 32 + 8 + 8 + (2 + (2 + cardFundData.reference))))

\* boxCost of cardFundClose: the deposit paid back to the closer
CardFundBoxCost(cardFundData) == getCardFundBoxMbr(cardFundData.reference)

\* mutation: the contract owner passes the sender check as well
cardFundCloseError_ContractOwner(sender, cardFund) ==
    IF cardFund \notin DOMAIN cardFunds THEN "CARD_FUND_NOT_FOUND"
    ELSE IF ~(onlyOwner(sender) \/ isCardFundOwner(sender, cardFund)) THEN "SENDER_NOT_ALLOWED"
    ELSE IF ~HasNoAssets(cardFund) THEN "ACCOUNT_HAS_ASSETS"
    ELSE "OK"


\* mutation: a card fund cannot be closed while the contract is paused
cardFundCloseError_WhenNotPaused(sender, cardFund) ==
    IF ~whenNotPaused THEN "PAUSED"
    ELSE IF cardFund \notin DOMAIN cardFunds THEN "CARD_FUND_NOT_FOUND"
    ELSE IF ~isCardFundOwner(sender, cardFund) THEN "SENDER_NOT_ALLOWED"
    ELSE IF ~HasNoAssets(cardFund) THEN "ACCOUNT_HAS_ASSETS"
    ELSE "OK"

cardFundCloseError(sender, cardFund) ==
    IF cardFund \notin DOMAIN cardFunds THEN "CARD_FUND_NOT_FOUND"
    ELSE IF ~isCardFundOwner(sender, cardFund) THEN "SENDER_NOT_ALLOWED"
    ELSE IF ~HasNoAssets(cardFund) THEN "ACCOUNT_HAS_ASSETS"
    ELSE "OK"

\* mutation: closing a card fund forgets to decrement the active counter
cardFundClose_CountKept(sender, cardFund) ==
    LET err == cardFundCloseError(sender, cardFund) IN
    IF err # "OK" THEN Fail("cardFundClose", err)
    ELSE
        LET cardFundData == cardFunds[cardFund] IN
        /\ cardFunds' = Remove(cardFunds, cardFund)
        /\ cardFundsActiveCount' = cardFundsActiveCount
        /\ partnerCardFundOwner' =
                Remove(partnerCardFundOwner,
                       PartnerCardFundOwnerKey(cardFundData.partnerChannel, cardFundData.owner))
        /\ authAddr' = Remove(authAddr, cardFund)
        /\ balance' = Pay(CloseRemainderTo(balance, cardFund, sender), MasterAddr, sender,
                    CardFundBoxCost(cardFundData))
        /\ Ok("cardFundClose")
        /\ UNCHANGED <<owner, pauser, paused, settlerRoleAddress, withdrawalWaitTime,
                       settlementNonce, settlementAddress, accountsCreated,
                       partnerChannelsSetup, partnerChannels, partnerChannelsActiveCount,
                       cardFundsSetup, withdrawals, optedIn, holding, now, withdrawalEvents, deleted>>

cardFundClose(sender, cardFund) ==
    LET err == cardFundCloseError(sender, cardFund) IN
    IF err # "OK" THEN Fail("cardFundClose", err)
    ELSE
        LET cardFundData == cardFunds[cardFund] IN
        /\ cardFunds' = Remove(cardFunds, cardFund)
        /\ cardFundsActiveCount' = cardFundsActiveCount - 1
        /\ partnerCardFundOwner' =
                Remove(partnerCardFundOwner,
                       PartnerCardFundOwnerKey(cardFundData.partnerChannel, cardFundData.owner))
        /\ authAddr' = Remove(authAddr, cardFund)
        /\ balance' = Pay(CloseRemainderTo(balance, cardFund, sender), MasterAddr, sender,
                    CardFundBoxCost(cardFundData))
        /\ Ok("cardFundClose")
        /\ UNCHANGED <<owner, pauser, paused, settlerRoleAddress, withdrawalWaitTime,
                       settlementNonce, settlementAddress, accountsCreated,
                       partnerChannelsSetup, partnerChannels, partnerChannelsActiveCount,
                       cardFundsSetup, withdrawals, optedIn, holding, now, withdrawalEvents, deleted>>

\* ------------------------------------------------------------ owner methods
setWithdrawalTimeout(sender, seconds) ==
    IF ~onlyOwner(sender) THEN Fail("setWithdrawalTimeout", "SENDER_NOT_ALLOWED")
    ELSE
        /\ withdrawalWaitTime' = seconds
        /\ Ok("setWithdrawalTimeout")
        /\ UNCHANGED <<owner, pauser, paused, settlerRoleAddress, settlementNonce,
                       settlementAddress, accountsCreated, authAddr, partnerChannelsSetup,
                       partnerChannels, partnerChannelsActiveCount, cardFundsSetup,
                       cardFunds, cardFundsActiveCount, partnerCardFundOwner, withdrawals,
                       optedIn, holding, now, withdrawalEvents, balance, deleted>>

setSettlerRole(sender, newSettlerAddress) ==
    IF ~onlyOwner(sender) THEN Fail("setSettlerRole", "SENDER_NOT_ALLOWED")
    ELSE
        /\ settlerRoleAddress' = newSettlerAddress
        /\ Ok("setSettlerRole")
        /\ UNCHANGED <<owner, pauser, paused, withdrawalWaitTime, settlementNonce,
                       settlementAddress, accountsCreated, authAddr, partnerChannelsSetup,
                       partnerChannels, partnerChannelsActiveCount, cardFundsSetup,
                       cardFunds, cardFundsActiveCount, partnerCardFundOwner, withdrawals,
                       optedIn, holding, now, withdrawalEvents, balance, deleted>>

\* mutation: teardown does not look at the active partner channels
destroyError_ChannelsIgnored(sender) ==
    IF ~onlyOwner(sender) THEN "SENDER_NOT_ALLOWED"
    ELSE IF cardFundsActiveCount # 0 THEN "CARDFUNDS_STILL_ACTIVE"
    ELSE IF ~HasNoAssets(MasterAddr) THEN "ACCOUNT_HAS_ASSETS"
    ELSE "OK"

destroyError(sender) ==
    IF ~onlyOwner(sender) THEN "SENDER_NOT_ALLOWED"
    ELSE IF cardFundsActiveCount # 0 THEN "CARDFUNDS_STILL_ACTIVE"
    ELSE IF partnerChannelsActiveCount # 0 THEN "PARTNERCHANNELS_STILL_ACTIVE"
    ELSE IF ~HasNoAssets(MasterAddr) THEN "ACCOUNT_HAS_ASSETS"
    ELSE "OK"

\* DeleteApplication: the contract's Algo goes to the owner and the application
\* leaves the ledger
destroy(sender) ==
    LET err == destroyError(sender) IN
    IF err # "OK" THEN Fail("destroy", err)
    ELSE
        /\ balance' = Pay(balance, MasterAddr, owner, balance[MasterAddr])
        /\ deleted' = TRUE
        /\ Ok("destroy")
        /\ UNCHANGED <<owner, pauser, paused, settlerRoleAddress, withdrawalWaitTime,
                       settlementNonce, settlementAddress, accountsCreated, authAddr,
                       partnerChannelsSetup, partnerChannels, partnerChannelsActiveCount,
                       cardFundsSetup, cardFunds, cardFundsActiveCount,
                       partnerCardFundOwner, withdrawals, optedIn, holding, now,
                       withdrawalEvents>>

\* Pausable: the pauser sets and clears the pause flag
setPaused(sender, flag) ==
    IF sender # pauser THEN Fail("setPaused", "SENDER_NOT_ALLOWED")
    ELSE
        /\ paused' = flag
        /\ Ok("setPaused")
        /\ UNCHANGED <<owner, pauser, settlerRoleAddress, withdrawalWaitTime,
                       settlementNonce, settlementAddress, accountsCreated, authAddr,
                       partnerChannelsSetup, partnerChannels, partnerChannelsActiveCount,
                       cardFundsSetup, cardFunds, cardFundsActiveCount,
                       partnerCardFundOwner, withdrawals, optedIn, holding, now, withdrawalEvents, balance, deleted>>

\* ---------------------------------------------------------- asset allowlist
updateSettlementAddress(asset, newSettlementAddress) ==
    Put(settlementAddress, asset, newSettlementAddress)

assetAllowlistAddError(sender, pay, asset) ==
    IF ~onlyOwner(sender) THEN "SENDER_NOT_ALLOWED"
    ELSE IF IsOptedInToAsset(MasterAddr, asset) THEN "ASSET_ALREADY_OPTED_IN"
    ELSE IF pay # getAssetAllowlistMbr THEN "PAYMENT_INVALID"
    ELSE "OK"

assetAllowlistAdd(sender, pay, asset, newSettlementAddress) ==
    LET err == assetAllowlistAddError(sender, pay, asset) IN
    IF err # "OK" THEN Fail("assetAllowlistAdd", err)
    ELSE
        /\ holding' = AssetOptIn(holding, MasterAddr, asset)
        /\ settlementAddress' = updateSettlementAddress(asset, newSettlementAddress)
        /\ balance' = Pay(balance, sender, MasterAddr, pay)
        /\ Ok("assetAllowlistAdd")
        /\ UNCHANGED <<owner, pauser, paused, settlerRoleAddress, withdrawalWaitTime,
                       settlementNonce, accountsCreated, authAddr, partnerChannelsSetup,
                       partnerChannels, partnerChannelsActiveCount, cardFundsSetup,
                       cardFunds, cardFundsActiveCount, partnerCardFundOwner, withdrawals,
                       optedIn, now, withdrawalEvents, deleted>>

\* mutation: the asset slot is closed whatever it holds
CanCloseOutAsset_AnyBalance(acct, asset) == IsOptedInToAsset(acct, asset)

\* the asset transfer with assetCloseTo the sender itself is accepted only for an
\* existing holding of zero units
CanCloseOutAsset(acct, asset) ==
    IsOptedInToAsset(acct, asset) /\ holding[<<acct, asset>>] = 0

assetAllowlistRemoveError(sender, asset) ==
    IF ~onlyOwner(sender) THEN "SENDER_NOT_ALLOWED"
    ELSE IF ~IsOptedInToAsset(MasterAddr, asset) THEN "ASSET_NOT_OPTED_IN"
    ELSE IF ~CanCloseOutAsset(MasterAddr, asset) THEN "ASSET_BALANCE_NOT_ZERO"
    ELSE "OK"

assetAllowlistRemove(sender, asset) ==
    LET err == assetAllowlistRemoveError(sender, asset) IN
    IF err # "OK" THEN Fail("assetAllowlistRemove", err)
    ELSE
        /\ holding' = Remove(holding, <<MasterAddr, asset>>)
        /\ settlementAddress' = Remove(settlementAddress, asset)
        /\ balance' = Pay(balance, MasterAddr, sender, getAssetAllowlistMbr)
        /\ Ok("assetAllowlistRemove")
        /\ UNCHANGED <<owner, pauser, paused, settlerRoleAddress, withdrawalWaitTime,
                       settlementNonce, accountsCreated, authAddr, partnerChannelsSetup,
                       partnerChannels, partnerChannelsActiveCount, cardFundsSetup,
                       cardFunds, cardFundsActiveCount, partnerCardFundOwner, withdrawals,
                       optedIn, now, withdrawalEvents, deleted>>

\* writing a record that does not exist creates its box, which the ledger accepts only
\* while the Master's account holds the box's deposit above its minimum balance; that
\* surplus is not part of the state, so both outcomes are possible
setSettlementAddress(sender, settlementAsset, newSettlementAddress) ==
    IF ~onlyOwner(sender) THEN Fail("setSettlementAddress", "SENDER_NOT_ALLOWED")
    ELSE
      \/ /\ settlementAsset \notin DOMAIN settlementAddress
         /\ Fail("setSettlementAddress", "BALANCE_BELOW_MIN")
      \/
        /\ settlementAddress' = updateSettlementAddress(settlementAsset, newSettlementAddress)
        /\ Ok("setSettlementAddress")
        /\ UNCHANGED <<owner, pauser, paused, settlerRoleAddress, withdrawalWaitTime,
                       settlementNonce, accountsCreated, authAddr, partnerChannelsSetup,
                       partnerChannels, partnerChannelsActiveCount, cardFundsSetup,
                       cardFunds, cardFundsActiveCount, partnerCardFundOwner, withdrawals,
                       optedIn, holding, now, withdrawalEvents, balance, deleted>>

\* sender passes `isOwner() || isCardFundOwner(cardFund)`; "OK" or the failing tag
OwnerOrCardFundOwner(sender, cardFund) ==
    IF onlyOwner(sender) THEN "OK"
    ELSE IF cardFund \notin DOMAIN cardFunds THEN "CARD_FUND_NOT_FOUND"
    ELSE IF ~isCardFundOwner(sender, cardFund) THEN "SENDER_NOT_ALLOWED"
    ELSE "OK"

cardFundEnableAssetError(sender, pay, cardFund, asset) ==
    IF OwnerOrCardFundOwner(sender, cardFund) # "OK" THEN OwnerOrCardFundOwner(sender, cardFund)
    ELSE IF pay # getCardFundAssetMbr THEN "PAYMENT_INVALID"
    ELSE IF ~IsOptedInToAsset(MasterAddr, asset) THEN "ASSET_NOT_OPTED_IN"
    ELSE IF ~IsControlled(cardFund) THEN "INNER_TXN_REJECTED"
    ELSE "OK"

cardFundEnableAsset(sender, pay, cardFund, asset) ==
    LET err == cardFundEnableAssetError(sender, pay, cardFund, asset) IN
    IF err # "OK" THEN Fail("cardFundEnableAsset", err)
    ELSE
        /\ holding' = IF IsOptedInToAsset(cardFund, asset) THEN holding
                      ELSE AssetOptIn(holding, cardFund, asset)
        /\ balance' = Pay(Pay(balance, sender, MasterAddr, pay), MasterAddr, cardFund,
                    getCardFundAssetMbr)
        /\ Ok("cardFundEnableAsset")
        /\ UNCHANGED <<owner, pauser, paused, settlerRoleAddress, withdrawalWaitTime,
                       settlementNonce, settlementAddress, accountsCreated, authAddr,
                       partnerChannelsSetup, partnerChannels, partnerChannelsActiveCount,
                       cardFundsSetup, cardFunds, cardFundsActiveCount,
                       partnerCardFundOwner, withdrawals, optedIn, now, withdrawalEvents, deleted>>

cardFundDisableAssetError(sender, cardFund, asset) ==
    IF OwnerOrCardFundOwner(sender, cardFund) # "OK" THEN OwnerOrCardFundOwner(sender, cardFund)
    ELSE IF ~IsControlled(cardFund) THEN "INNER_TXN_REJECTED"
    ELSE IF ~CanCloseOutAsset(cardFund, asset) THEN "ASSET_BALANCE_NOT_ZERO"
    ELSE "OK"

cardFundDisableAsset(sender, cardFund, asset) ==
    LET err == cardFundDisableAssetError(sender, cardFund, asset) IN
    IF err # "OK" THEN Fail("cardFundDisableAsset", err)
    ELSE
        /\ holding' = Remove(holding, <<cardFund, asset>>)
        /\ balance' = Pay(balance, cardFund, sender, getCardFundAssetMbr)
        /\ Ok("cardFundDisableAsset")
        /\ UNCHANGED <<owner, pauser, paused, settlerRoleAddress, withdrawalWaitTime,
                       settlementNonce, settlementAddress, accountsCreated, authAddr,
                       partnerChannelsSetup, partnerChannels, partnerChannelsActiveCount,
                       cardFundsSetup, cardFunds, cardFundsActiveCount,
                       partnerCardFundOwner, withdrawals, optedIn, now, withdrawalEvents, deleted>>

\* --------------------------------------------------------- ledger operations
\* mutation: the nonce last used is accepted again
expectedPaymentNonce_Replayed(cardFund) == cardFunds[cardFund].paymentNonce

expectedPaymentNonce(cardFund) == cardFunds[cardFund].paymentNonce + 1


\* mutation: a pending withdrawal request reserves its amount against debits
cardFundDebitError_Reserving(sender, cardFund, asset, amount, nonce) ==
    IF ~whenNotPaused THEN "PAUSED"
    ELSE IF ~onlySettler(sender) THEN "SENDER_NOT_ALLOWED"
    ELSE IF cardFund \notin DOMAIN cardFunds THEN "BOX_NOT_FOUND"
    ELSE IF expectedPaymentNonce(cardFund) # nonce THEN "NONCE_INVALID"
    ELSE IF ~CanTransfer(cardFund, MasterAddr, asset, amount) THEN "TRANSFER_REJECTED"
    ELSE IF \E k \in DOMAIN withdrawals :
                /\ k[2] = cardFund
                /\ withdrawals[k].asset = asset
                /\ IsOptedInToAsset(cardFund, asset)
                /\ holding[<<cardFund, asset>>] - amount < withdrawals[k].amount
        THEN "FUNDS_RESERVED"
    ELSE "OK"

cardFundDebitError(sender, cardFund, asset, amount, nonce) ==
    IF ~whenNotPaused THEN "PAUSED"
    ELSE IF ~onlySettler(sender) THEN "SENDER_NOT_ALLOWED"
    ELSE IF cardFund \notin DOMAIN cardFunds THEN "BOX_NOT_FOUND"
    ELSE IF expectedPaymentNonce(cardFund) # nonce THEN "NONCE_INVALID"
    ELSE IF ~CanTransfer(cardFund, MasterAddr, asset, amount) THEN "TRANSFER_REJECTED"
    ELSE "OK"

cardFundDebit(sender, cardFund, asset, amount, nonce) ==
    LET err == cardFundDebitError(sender, cardFund, asset, amount, nonce) IN
    IF err # "OK" THEN Fail("cardFundDebit", err)
    ELSE
        /\ holding' = Transfer(holding, cardFund, MasterAddr, asset, amount)
        /\ cardFunds' = [cardFunds EXCEPT ![cardFund].paymentNonce = expectedPaymentNonce(cardFund)]
        /\ Ok("cardFundDebit")
        /\ UNCHANGED <<owner, pauser, paused, settlerRoleAddress, withdrawalWaitTime,
                       settlementNonce, settlementAddress, accountsCreated, authAddr,
                       partnerChannelsSetup, partnerChannels, partnerChannelsActiveCount,
                       cardFundsSetup, cardFundsActiveCount, partnerCardFundOwner,
                       withdrawals, optedIn, now, withdrawalEvents, balance, deleted>>

cardFundRefundError(sender, cardFund, asset, amount, nonce) ==
    IF ~whenNotPaused THEN "PAUSED"
    ELSE IF ~onlySettler(sender) THEN "SENDER_NOT_ALLOWED"
    ELSE IF cardFund \notin DOMAIN cardFunds THEN "BOX_NOT_FOUND"
    ELSE IF expectedPaymentNonce(cardFund) # nonce THEN "NONCE_INVALID"
    ELSE IF ~CanTransfer(MasterAddr, cardFund, asset, amount) THEN "TRANSFER_REJECTED"
    ELSE "OK"

cardFundRefund(sender, cardFund, asset, amount, nonce) ==
    LET err == cardFundRefundError(sender, cardFund, asset, amount, nonce) IN
    IF err # "OK" THEN Fail("cardFundRefund", err)
    ELSE
        /\ holding' = Transfer(holding, MasterAddr, cardFund, asset, amount)
        /\ cardFunds' = [cardFunds EXCEPT ![cardFund].paymentNonce = expectedPaymentNonce(cardFund)]
        /\ Ok("cardFundRefund")
        /\ UNCHANGED <<owner, pauser, paused, settlerRoleAddress, withdrawalWaitTime,
                       settlementNonce, settlementAddress, accountsCreated, authAddr,
                       partnerChannelsSetup, partnerChannels, partnerChannelsActiveCount,
                       cardFundsSetup, cardFundsActiveCount, partnerCardFundOwner,
                       withdrawals, optedIn, now, withdrawalEvents, balance, deleted>>

\* mutation: the settlement nonce is not compared
settleError_NoNonceCheck(sender, asset, amount, nonce) ==
    IF ~whenNotPaused THEN "PAUSED"
    ELSE IF ~onlySettler(sender) THEN "SENDER_NOT_ALLOWED"
    ELSE IF asset \notin DOMAIN settlementAddress THEN "SETTLEMENT_ADDRESS_NOT_FOUND"
    ELSE IF ~CanTransfer(MasterAddr, settlementAddress[asset], asset, amount)
        THEN "TRANSFER_REJECTED"
    ELSE "OK"

settleError(sender, asset, amount, nonce) ==
    IF ~whenNotPaused THEN "PAUSED"
    ELSE IF ~onlySettler(sender) THEN "SENDER_NOT_ALLOWED"
    ELSE IF settlementNonce + 1 # nonce THEN "NONCE_INVALID"
    ELSE IF asset \notin DOMAIN settlementAddress THEN "SETTLEMENT_ADDRESS_NOT_FOUND"
    ELSE IF ~CanTransfer(MasterAddr, settlementAddress[asset], asset, amount)
        THEN "TRANSFER_REJECTED"
    ELSE "OK"

settle(sender, asset, amount, nonce) ==
    LET err == settleError(sender, asset, amount, nonce) IN
    IF err # "OK" THEN Fail("settle", err)
    ELSE
        /\ holding' = Transfer(holding, MasterAddr, settlementAddress[asset], asset, amount)
        /\ settlementNonce' = settlementNonce + 1
        /\ Ok("settle")
        /\ UNCHANGED <<owner, pauser, paused, settlerRoleAddress, withdrawalWaitTime,
                       settlementAddress, accountsCreated, authAddr, partnerChannelsSetup,
                       partnerChannels, partnerChannelsActiveCount, cardFundsSetup,
                       cardFunds, cardFundsActiveCount, partnerCardFundOwner, withdrawals,
                       optedIn, now, withdrawalEvents, balance, deleted>>

\* --------------------------------------------------------- withdrawal engine
\* cardFund.assetBalance(asset): 0 for an account not opted in to the asset
assetBalance(acct, asset) ==
    IF IsOptedInToAsset(acct, asset) THEN holding[<<acct, asset>>] ELSE 0

\* mutation: a request may name more than the card fund holds
cardFundInitPermissionlessWithdrawalError_NoBalanceCheck(sender, oc, cardFund, asset, amount) ==
    IF ~OnCompletionOk(sender, oc) THEN "ON_COMPLETION_REJECTED"
    ELSE IF cardFund \notin DOMAIN cardFunds THEN "CARD_FUND_NOT_FOUND"
    ELSE IF ~isCardFundOwner(sender, cardFund) THEN "SENDER_NOT_ALLOWED"
    ELSE IF ~HasLocal(sender, oc) THEN "NOT_OPTED_IN"
    ELSE "OK"

cardFundInitPermissionlessWithdrawalError(sender, oc, cardFund, asset, amount) ==
    IF ~OnCompletionOk(sender, oc) THEN "ON_COMPLETION_REJECTED"
    ELSE IF cardFund \notin DOMAIN cardFunds THEN "CARD_FUND_NOT_FOUND"
    ELSE IF ~isCardFundOwner(sender, cardFund) THEN "SENDER_NOT_ALLOWED"
    ELSE IF ~(amount <= assetBalance(cardFund, asset)) THEN "INSUFFICIENT_BALANCE"
    ELSE IF ~HasLocal(sender, oc) THEN "NOT_OPTED_IN"
    ELSE "OK"

\* bound of the model: no request is made for a nonce beyond MaxNonce
WithdrawalNonceInBound(cardFund) ==
    cardFund \in DOMAIN cardFunds => cardFunds[cardFund].withdrawalNonce < MaxNonce

cardFundInitPermissionlessWithdrawal(sender, oc, cardFund, asset, amount) ==
    /\ oc \in {"NoOp", "OptIn"}
    /\ WithdrawalNonceInBound(cardFund)
    /\ LET err == cardFundInitPermissionlessWithdrawalError(sender, oc, cardFund, asset, amount) IN
        IF err # "OK" THEN Fail("cardFundInitPermissionlessWithdrawal", err)
        ELSE
            /\ withdrawals' =
                    Put(withdrawals, <<sender, cardFund>>,
                        [cardFund |-> cardFund,
                         asset |-> asset,
                         amount |-> amount,
                         createdAt |-> now,
                         nonce |-> cardFunds[cardFund].withdrawalNonce + 1])
            /\ optedIn' = OptedInAfter(sender, oc)
            /\ Ok("cardFundInitPermissionlessWithdrawal")
            /\ UNCHANGED <<owner, pauser, paused, settlerRoleAddress, withdrawalWaitTime,
                           settlementNonce, settlementAddress, accountsCreated, authAddr,
                           partnerChannelsSetup, partnerChannels,
                           partnerChannelsActiveCount, cardFundsSetup, cardFunds,
                           cardFundsActiveCount, partnerCardFundOwner, holding, now,
                           withdrawalEvents, balance, deleted>>

\* mutation: the request is left in local state
DeleteWithdrawal_Skipped(sender, cardFund) == withdrawals

\* this.withdrawals(this.txn.sender, cardFund).delete()
DeleteWithdrawal(sender, cardFund) == Remove(withdrawals, <<sender, cardFund>>)

cardFundWithdrawalCancelError(sender, cardFund) ==
    IF cardFund \notin DOMAIN cardFunds THEN "CARD_FUND_NOT_FOUND"
    ELSE IF ~isCardFundOwner(sender, cardFund) THEN "SENDER_NOT_ALLOWED"
    ELSE IF sender \notin optedIn THEN "NOT_OPTED_IN"
    ELSE IF <<sender, cardFund>> \notin DOMAIN withdrawals THEN "WITHDRAWAL_REQUEST_NOT_FOUND"
    ELSE "OK"

\* The cancellation event is built from `withdrawalRequest`, a reference to the
\* local-state value, after that value was deleted: the read either still yields the
\* request (the call succeeds) or is rejected (the call fails as a whole).
cardFundWithdrawalCancel(sender, cardFund) ==
    LET err == cardFundWithdrawalCancelError(sender, cardFund) IN
    IF err # "OK" THEN Fail("cardFundWithdrawalCancel", err)
    ELSE
        \/ Fail("cardFundWithdrawalCancel", "DELETED_VALUE_READ")
        \/ /\ withdrawals' = DeleteWithdrawal(sender, cardFund)
           /\ Ok("cardFundWithdrawalCancel")
           /\ UNCHANGED <<owner, pauser, paused, settlerRoleAddress, withdrawalWaitTime,
                          settlementNonce, settlementAddress, accountsCreated, authAddr,
                          partnerChannelsSetup, partnerChannels,
                          partnerChannelsActiveCount, cardFundsSetup, cardFunds,
                          cardFundsActiveCount, partnerCardFundOwner, optedIn, holding,
                          now, withdrawalEvents, balance, deleted>>

\* withdrawFunds: the transfer is skipped for amount 0, and the nonce is stored through
\* the reference `nonceValue` to the card fund's box
WithdrawnHolding(cardFund, recipient, asset, amount) ==
    IF amount > 0 THEN Transfer(holding, cardFund, recipient, asset, amount) ELSE holding

\* mutation: `nonceValue` is a copy, the box keeps the old nonce
WithdrawnCardFunds_NotStored(cardFund, nonce) == cardFunds


\* mutation: withdrawals advance the payment counter as well
WithdrawnCardFunds_SharedCounter(cardFund, nonce) ==
    [cardFunds EXCEPT ![cardFund].withdrawalNonce = nonce, ![cardFund].paymentNonce = nonce]

WithdrawnCardFunds(cardFund, nonce) ==
    [cardFunds EXCEPT ![cardFund].withdrawalNonce = nonce]

WithdrawalTypeApproved == "approved"
WithdrawalTypePermissionLess == "permissionless"

\* the Withdrawal event withdrawFunds logs
WithdrawalEvent(cardFund, recipient, asset, amount, timestamp, nonce, withdrawalType) ==
    [cardFund |-> cardFund,
     recipient |-> recipient,
     asset |-> asset,
     amount |-> amount,
     createdAt |-> IF withdrawalType = WithdrawalTypePermissionLess THEN timestamp ELSE 0,
     expiresAt |-> IF withdrawalType = WithdrawalTypeApproved THEN timestamp ELSE 0,
     nonce |-> nonce,
     type |-> withdrawalType]

\* mutation: the cooling-off period is not added
ReleaseTime_NoWait(createdAt) == createdAt


\* mutation: the cooling-off period is a day whatever the contract owner has set
ReleaseTime_FixedDay(createdAt) == createdAt + 86400

ReleaseTime(createdAt) == createdAt + withdrawalWaitTime

\* mutation: the request's nonce is not compared with the card fund's
cardFundExecutePermissionlessWithdrawalError_NoNonceCheck(sender, oc, cardFund, amount) ==
    IF ~OnCompletionOk(sender, oc) THEN "ON_COMPLETION_REJECTED"
    ELSE IF cardFund \notin DOMAIN cardFunds THEN "CARD_FUND_NOT_FOUND"
    ELSE IF ~isCardFundOwner(sender, cardFund) THEN "SENDER_NOT_ALLOWED"
    ELSE IF sender \notin optedIn THEN "NOT_OPTED_IN"
    ELSE IF <<sender, cardFund>> \notin DOMAIN withdrawals THEN "WITHDRAWAL_REQUEST_NOT_FOUND"
    ELSE IF ~(amount <= withdrawals[<<sender, cardFund>>].amount) THEN "AMOUNT_INVALID"
    ELSE IF ~(now >= ReleaseTime(withdrawals[<<sender, cardFund>>].createdAt))
        THEN "WITHDRAWAL_TIME_INVALID"
    ELSE IF ~CanTransfer(cardFund, sender, withdrawals[<<sender, cardFund>>].asset, amount)
        THEN "TRANSFER_REJECTED"
    ELSE "OK"

\* mutation: the amount is not compared with the requested amount
cardFundExecutePermissionlessWithdrawalError_NoAmountCheck(sender, oc, cardFund, amount) ==
    IF ~OnCompletionOk(sender, oc) THEN "ON_COMPLETION_REJECTED"
    ELSE IF cardFund \notin DOMAIN cardFunds THEN "CARD_FUND_NOT_FOUND"
    ELSE IF ~isCardFundOwner(sender, cardFund) THEN "SENDER_NOT_ALLOWED"
    ELSE IF sender \notin optedIn THEN "NOT_OPTED_IN"
    ELSE IF <<sender, cardFund>> \notin DOMAIN withdrawals THEN "WITHDRAWAL_REQUEST_NOT_FOUND"
    ELSE IF cardFunds[cardFund].withdrawalNonce + 1 # withdrawals[<<sender, cardFund>>].nonce
        THEN "NONCE_INVALID"
    ELSE IF ~(now >= ReleaseTime(withdrawals[<<sender, cardFund>>].createdAt))
        THEN "WITHDRAWAL_TIME_INVALID"
    ELSE IF ~CanTransfer(cardFund, sender, withdrawals[<<sender, cardFund>>].asset, amount)
        THEN "TRANSFER_REJECTED"
    ELSE "OK"

cardFundExecutePermissionlessWithdrawalError(sender, oc, cardFund, amount) ==
    IF ~OnCompletionOk(sender, oc) THEN "ON_COMPLETION_REJECTED"
    ELSE IF cardFund \notin DOMAIN cardFunds THEN "CARD_FUND_NOT_FOUND"
    ELSE IF ~isCardFundOwner(sender, cardFund) THEN "SENDER_NOT_ALLOWED"
    ELSE IF sender \notin optedIn THEN "NOT_OPTED_IN"
    ELSE IF <<sender, cardFund>> \notin DOMAIN withdrawals THEN "WITHDRAWAL_REQUEST_NOT_FOUND"
    ELSE IF ~(amount <= withdrawals[<<sender, cardFund>>].amount) THEN "AMOUNT_INVALID"
    ELSE IF cardFunds[cardFund].withdrawalNonce + 1 # withdrawals[<<sender, cardFund>>].nonce
        THEN "NONCE_INVALID"
    ELSE IF ~(now >= ReleaseTime(withdrawals[<<sender, cardFund>>].createdAt))
        THEN "WITHDRAWAL_TIME_INVALID"
    ELSE IF ~CanTransfer(cardFund, sender, withdrawals[<<sender, cardFund>>].asset, amount)
        THEN "TRANSFER_REJECTED"
    ELSE "OK"

cardFundExecutePermissionlessWithdrawal(sender, oc, cardFund, amount) ==
    /\ oc \in {"NoOp", "CloseOut"}
    /\ LET err == cardFundExecutePermissionlessWithdrawalError(sender, oc, cardFund, amount) IN
        IF err # "OK" THEN Fail("cardFundExecutePermissionlessWithdrawal", err)
        ELSE
            LET withdrawal == withdrawals[<<sender, cardFund>>] IN
            /\ holding' = WithdrawnHolding(cardFund, sender, withdrawal.asset, amount)
            /\ cardFunds' = WithdrawnCardFunds(cardFund, withdrawal.nonce)
            /\ withdrawals' = AfterCall(DeleteWithdrawal(sender, cardFund), sender, oc)
            /\ partnerChannelsSetup' = AfterCall(partnerChannelsSetup, sender, oc)
            /\ cardFundsSetup' = AfterCall(cardFundsSetup, sender, oc)
            /\ optedIn' = OptedInAfter(sender, oc)
            /\ withdrawalEvents' =
                    Append(withdrawalEvents,
                           WithdrawalEvent(cardFund, sender, withdrawal.asset, amount,
                                           withdrawal.createdAt, withdrawal.nonce,
                                           WithdrawalTypePermissionLess))
            /\ Ok("cardFundExecutePermissionlessWithdrawal")
            /\ UNCHANGED <<owner, pauser, paused, settlerRoleAddress, withdrawalWaitTime,
                           settlementNonce, settlementAddress, accountsCreated, authAddr,
                           partnerChannels, partnerChannelsActiveCount,
                           cardFundsActiveCount, partnerCardFundOwner, now, balance,
                           deleted>>

ApprovedWithdrawalRequest(cardFund, recipient, asset, amount, expiresAt, nonce, genesisHash) ==
    [cardFund |-> cardFund,
     recipient |-> recipient,
     asset |-> asset,
     amount |-> amount,
     expiresAt |-> expiresAt,
     nonce |-> nonce,
     genesisHash |-> genesisHash]

\* sha256(rawBytes(withdrawal)): the fixed-width fields in declaration order, hashed;
\* two requests have the same hash exactly if all the hashed fields agree
\* mutation: the genesis hash is left out of the hashed bytes
withdrawalHash_NoGenesisHash(withdrawal) ==
    <<"sha256", withdrawal.cardFund, withdrawal.recipient, withdrawal.asset,
      withdrawal.amount, withdrawal.expiresAt, withdrawal.nonce>>

withdrawalHash(withdrawal) ==
    <<"sha256", withdrawal.cardFund, withdrawal.recipient, withdrawal.asset,
      withdrawal.amount, withdrawal.expiresAt, withdrawal.nonce, withdrawal.genesisHash>>

\* a signature is made by the holder of a key over one byte string
Sign(signer, data) == [signer |-> signer, data |-> data]

ed25519VerifyBare(data, signature, publicKey) ==
    signature.signer = publicKey /\ signature.data = data

\* mutation: the nonce last used is accepted again
expectedWithdrawalNonce_Replayed(cardFund) == cardFunds[cardFund].withdrawalNonce

expectedWithdrawalNonce(cardFund) == cardFunds[cardFund].withdrawalNonce + 1

\* mutation: the nonce is checked before the expiry
cardFundExecuteApprovedWithdrawalError_NonceFirst(sender, cardFund, asset, amount, expiresAt, nonce, signature) ==
    IF cardFund \notin DOMAIN cardFunds THEN "CARD_FUND_NOT_FOUND"
    ELSE IF ~isCardFundOwner(sender, cardFund) THEN "SENDER_NOT_ALLOWED"
    ELSE IF expectedWithdrawalNonce(cardFund) # nonce THEN "NONCE_INVALID"
    ELSE IF ~(now < expiresAt) THEN "WITHDRAWAL_TIME_INVALID"
    ELSE IF ~ed25519VerifyBare(
                withdrawalHash(ApprovedWithdrawalRequest(cardFund, sender, asset, amount,
                                                         expiresAt, nonce, GenesisHash)),
                signature, settlerRoleAddress)
        THEN "SIGNATURE_INVALID"
    ELSE IF ~CanTransfer(cardFund, sender, asset, amount) THEN "TRANSFER_REJECTED"
    ELSE "OK"

cardFundExecuteApprovedWithdrawalError(sender, cardFund, asset, amount, expiresAt, nonce, signature) ==
    IF cardFund \notin DOMAIN cardFunds THEN "CARD_FUND_NOT_FOUND"
    ELSE IF ~isCardFundOwner(sender, cardFund) THEN "SENDER_NOT_ALLOWED"
    ELSE IF ~(now < expiresAt) THEN "WITHDRAWAL_TIME_INVALID"
    ELSE IF expectedWithdrawalNonce(cardFund) # nonce THEN "NONCE_INVALID"
    ELSE IF ~ed25519VerifyBare(
                withdrawalHash(ApprovedWithdrawalRequest(cardFund, sender, asset, amount,
                                                         expiresAt, nonce, GenesisHash)),
                signature, settlerRoleAddress)
        THEN "SIGNATURE_INVALID"
    ELSE IF ~CanTransfer(cardFund, sender, asset, amount) THEN "TRANSFER_REJECTED"
    ELSE "OK"

cardFundExecuteApprovedWithdrawal(sender, cardFund, asset, amount, expiresAt, nonce, signature) ==
    LET err == cardFundExecuteApprovedWithdrawalError(
                   sender, cardFund, asset, amount, expiresAt, nonce, signature) IN
    IF err # "OK" THEN Fail("cardFundExecuteApprovedWithdrawal", err)
    ELSE
        /\ holding' = WithdrawnHolding(cardFund, sender, asset, amount)
        /\ cardFunds' = WithdrawnCardFunds(cardFund, nonce)
        /\ withdrawalEvents' =
                Append(withdrawalEvents,
                       WithdrawalEvent(cardFund, sender, asset, amount, expiresAt, nonce,
                                       WithdrawalTypeApproved))
        /\ Ok("cardFundExecuteApprovedWithdrawal")
        /\ UNCHANGED <<owner, pauser, paused, settlerRoleAddress, withdrawalWaitTime,
                       settlementNonce, settlementAddress, accountsCreated, authAddr,
                       partnerChannelsSetup, partnerChannels, partnerChannelsActiveCount,
                       cardFundsSetup, cardFundsActiveCount, partnerCardFundOwner,
                       withdrawals, optedIn, now, balance, deleted>>

\* ------------------------------------------------------------- environment
\* an asset transfer sent to a sub-account by a user, outside the contract
Deposit(user, acct, asset, amount) ==
    /\ amount > 0
    /\ IsOptedInToAsset(user, asset)
    /\ IsOptedInToAsset(acct, asset)
    /\ holding[<<user, asset>>] >= amount
    /\ holding' = Transfer(holding, user, acct, asset, amount)
    /\ result' = Outcome("deposit", "OK")
    /\ UNCHANGED <<owner, pauser, paused, settlerRoleAddress, withdrawalWaitTime,
                   settlementNonce, settlementAddress, accountsCreated, authAddr,
                   partnerChannelsSetup, partnerChannels, partnerChannelsActiveCount,
                   cardFundsSetup, cardFunds, cardFundsActiveCount, partnerCardFundOwner,
                   withdrawals, optedIn, now, withdrawalEvents, balance, deleted>>

\* a later block: globals.latestTimestamp never decreases
Tick(t) ==
    /\ t > now
    /\ now' = t
    /\ result' = Outcome("tick", "OK")
    /\ UNCHANGED <<owner, pauser, paused, settlerRoleAddress, withdrawalWaitTime,
                   settlementNonce, settlementAddress, accountsCreated, authAddr,
                   partnerChannelsSetup, partnerChannels, partnerChannelsActiveCount,
                   cardFundsSetup, cardFunds, cardFundsActiveCount, partnerCardFundOwner,
                   withdrawals, optedIn, holding, withdrawalEvents, balance, deleted>>

\* ------------------------------------------------------- offered signatures
\* the requests a presented signature may have been made for: the request of the
\* call itself, or that request with one field replaced
RequestVariants(w) ==
    {w}
        \cup {[w EXCEPT !.cardFund = v] : v \in Addrs}
        \cup {[w EXCEPT !.recipient = v] : v \in Users}
        \cup {[w EXCEPT !.asset = v] : v \in AssetIds}
        \cup {[w EXCEPT !.amount = v] : v \in Amounts}
        \cup {[w EXCEPT !.expiresAt = v] : v \in ExpiryTimes}
        \cup {[w EXCEPT !.nonce = v] : v \in Nonces}
        \cup {[w EXCEPT !.genesisHash = v] : v \in GenesisHashes}

\* the signature the holder of key k issues for request w
SignatureFor(k, w) == Sign(k, withdrawalHash(w))

\* signatures presented with a call; the signature is read only once the checks
\* before it have passed, so one signature stands for all of them until then
Signatures(sender, cardFund, asset, amount, expiresAt, nonce) ==
    LET w == ApprovedWithdrawalRequest(cardFund, sender, asset, amount, expiresAt, nonce,
                                       GenesisHash) IN
    IF cardFundExecuteApprovedWithdrawalError(
           sender, cardFund, asset, amount, expiresAt, nonce, SignatureFor("settler", w))
       \in {"CARD_FUND_NOT_FOUND", "SENDER_NOT_ALLOWED", "WITHDRAWAL_TIME_INVALID",
            "NONCE_INVALID"}
    THEN {SignatureFor("settler", w)}
    ELSE {SignatureFor(k, v) : k \in Users, v \in RequestVariants(w)}

\* --------------------------------------------------------------------- Next
\* no call reaches an application that was deleted
Next ==
    \/ ~deleted /\ \E u \in Users, oc \in {"NoOp", "OptIn"}, pay \in PayAmounts, n \in NameLens :
                partnerChannelDeployInit(u, oc, pay, n)
    \/ ~deleted /\ \E u \in Users, oc \in {"NoOp", "CloseOut"}, pay \in PayAmounts, a \in Addrs :
                partnerChannelDeployComplete(u, oc, pay, a)
    \/ ~deleted /\ \E u \in Users, a \in Addrs : partnerChannelClose(u, a)
    \/ ~deleted /\ \E u \in Users, oc \in {"NoOp", "OptIn"}, pay \in PayAmounts, pc \in Addrs,
               asset \in {NoAsset} \cup AllowAssets, r \in RefLens :
                cardFundDeployInit(u, oc, pay, pc, asset, r)
    \/ ~deleted /\ \E u \in Users, oc \in {"NoOp", "CloseOut"}, pay \in PayAmounts, a \in Addrs :
                cardFundDeployComplete(u, oc, pay, a)
    \/ ~deleted /\ \E u \in Users, a \in Addrs : cardFundClose(u, a)
    \/ ~deleted /\ \E u \in Users : destroy(u)
    \/ ~deleted /\ \E u \in Users, w \in WaitTimes : setWithdrawalTimeout(u, w)
    \/ ~deleted /\ \E u \in Users, k \in Users : setSettlerRole(u, k)
    \/ ~deleted /\ \E u \in Users, f \in BOOLEAN : setPaused(u, f)
    \/ ~deleted /\ \E u \in Users, pay \in PayAmounts, asset \in AllowAssets :
                assetAllowlistAdd(u, pay, asset, SettlementSink)
    \/ ~deleted /\ \E u \in Users, asset \in AssetIds : assetAllowlistRemove(u, asset)
    \/ ~deleted /\ \E u \in Users, asset \in AssetIds : setSettlementAddress(u, asset, SettlementSink)
    \/ ~deleted /\ \E u \in Users, pay \in PayAmounts, a \in Addrs, asset \in AssetIds :
                cardFundEnableAsset(u, pay, a, asset)
    \/ ~deleted /\ \E u \in Users, a \in Addrs, asset \in AssetIds : cardFundDisableAsset(u, a, asset)
    \/ ~deleted /\ \E u \in Users, a \in Addrs, asset \in AssetIds, amt \in Amounts, n \in Nonces :
                cardFundDebit(u, a, asset, amt, n)
    \/ ~deleted /\ \E u \in Users, a \in Addrs, asset \in AssetIds, amt \in Amounts, n \in Nonces :
                cardFundRefund(u, a, asset, amt, n)
    \/ ~deleted /\ \E u \in Users, asset \in AssetIds, amt \in Amounts, n \in Nonces :
                settle(u, asset, amt, n)
    \/ ~deleted /\ \E u \in Users, oc \in {"NoOp", "OptIn"}, a \in Addrs, asset \in AssetIds,
               amt \in Amounts :
                cardFundInitPermissionlessWithdrawal(u, oc, a, asset, amt)
    \/ ~deleted /\ \E u \in Users, a \in Addrs : cardFundWithdrawalCancel(u, a)
    \/ ~deleted /\ \E u \in Users, oc \in {"NoOp", "CloseOut"}, a \in Addrs, amt \in Amounts :
                cardFundExecutePermissionlessWithdrawal(u, oc, a, amt)
    \/ ~deleted /\ \E u \in Users, a \in Addrs, asset \in AssetIds, amt \in Amounts,
               e \in ExpiryTimes, n \in Nonces :
                \E sig \in Signatures(u, a, asset, amt, e, n) :
                    cardFundExecuteApprovedWithdrawal(u, a, asset, amt, e, n, sig)
    \/ ~deleted /\ \E u \in Users, a \in Addrs, asset \in AssetIds, amt \in 1..MaxAmount :
                Deposit(u, a, asset, amt)
    \/ ~deleted /\ \E t \in Times : Tick(t)

Spec == Init /\ [][Next]_vars

\* ------------------------------------------------- narrowed specifications
\* Each specification below takes its steps from Next with the inputs drawn
\* from smaller sets, so that one part of the contract is explored in depth.

\* Registry: every way of creating and closing partner channels and card funds
RegistryUsers == {"owner", "alice"}
\* a name and a reference that are accepted, and ones that are too long
RegistryNameLens == {4, 33}
RegistryRefLens == {0, 63}
RegistryPayAmounts == PayAmountsFor(RegistryNameLens, RegistryRefLens)

NextRegistry ==
    \/ \E u \in RegistryUsers, oc \in {"NoOp", "OptIn"}, pay \in RegistryPayAmounts, n \in RegistryNameLens :
            partnerChannelDeployInit(u, oc, pay, n)
    \/ \E u \in RegistryUsers, oc \in {"NoOp", "CloseOut"}, pay \in RegistryPayAmounts, a \in Addrs :
            partnerChannelDeployComplete(u, oc, pay, a)
    \/ \E u \in RegistryUsers, a \in Addrs : partnerChannelClose(u, a)
    \/ \E u \in RegistryUsers, oc \in {"NoOp", "OptIn"}, pay \in RegistryPayAmounts, pc \in Addrs,
           asset \in {NoAsset} \cup AllowAssets, r \in RegistryRefLens :
            cardFundDeployInit(u, oc, pay, pc, asset, r)
    \/ \E u \in RegistryUsers, oc \in {"NoOp", "CloseOut"}, pay \in RegistryPayAmounts, a \in Addrs :
            cardFundDeployComplete(u, oc, pay, a)
    \/ \E u \in RegistryUsers, a \in Addrs : cardFundClose(u, a)
    \/ \E u \in RegistryUsers, pay \in RegistryPayAmounts, asset \in AllowAssets :
            assetAllowlistAdd(u, pay, asset, SettlementSink)

SpecRegistry == Init /\ [][NextRegistry]_vars

\* One partner channel of the owner and one card fund of alice holding asset 1,
\* with the allow-list and the settler role configured before the accounts exist
Provision ==
    \/ accountsCreated = 0
            /\ assetAllowlistAdd("owner", getAssetAllowlistMbr, 1, SettlementSink)
    \/ accountsCreated = 0 /\ setSettlerRole("owner", "settler")
    \/ accountsCreated = 0 /\ partnerChannelDeployInit("owner", "OptIn", MinBalance, 4)
    \/ partnerChannelDeployComplete("owner", "NoOp", getPartnerChannelBoxMbr(4), AddrSeq[1])
    \/ accountsCreated = 1
            /\ cardFundDeployInit("alice", "OptIn", MinBalance + AssetOptInMinBalance,
                                  AddrSeq[1], 1, 0)
    \/ cardFundDeployComplete("alice", "NoOp", getCardFundBoxMbr(0), AddrSeq[2])
    \/ Deposit("alice", AddrSeq[2], 1, MaxAmount)

ProvisionedAddrs == {AddrSeq[1], AddrSeq[2]}

\* Ledger: debit, refund and settle on the provisioned card fund
LedgerUsers == Users

NextLedger ==
    \/ Provision
    \/ \E u \in {"owner", "alice"}, f \in BOOLEAN : setPaused(u, f)
    \/ \E u \in {"owner", "settler"}, k \in {"settler", "alice"} : setSettlerRole(u, k)
    \/ \E u \in LedgerUsers, a \in ProvisionedAddrs, asset \in AssetIds, amt \in Amounts,
           n \in Nonces :
            cardFundDebit(u, a, asset, amt, n)
    \/ \E u \in LedgerUsers, a \in ProvisionedAddrs, asset \in AssetIds, amt \in Amounts,
           n \in Nonces :
            cardFundRefund(u, a, asset, amt, n)
    \/ \E u \in LedgerUsers, asset \in AssetIds, amt \in Amounts, n \in Nonces :
            settle(u, asset, amt, n)

SpecLedger == Init /\ [][NextLedger]_vars

\* Withdrawal: both withdrawal paths on the provisioned card fund, over time
WithdrawalUsers == {"owner", "alice"}
\* amounts the withdrawal calls name: nothing, or all that was deposited
WithdrawalAmounts == {0, MaxAmount}

NextWithdrawal ==
    \/ Provision
    \/ \E u \in WithdrawalUsers, w \in WaitTimes : setWithdrawalTimeout(u, w)
    \/ \E u \in WithdrawalUsers, oc \in {"NoOp", "OptIn"}, a \in ProvisionedAddrs,
           asset \in AllowAssets, amt \in WithdrawalAmounts :
            cardFundInitPermissionlessWithdrawal(u, oc, a, asset, amt)
    \/ \E u \in WithdrawalUsers, a \in ProvisionedAddrs : cardFundWithdrawalCancel(u, a)
    \/ \E u \in WithdrawalUsers, oc \in {"NoOp", "CloseOut"}, a \in ProvisionedAddrs,
           amt \in WithdrawalAmounts :
            cardFundExecutePermissionlessWithdrawal(u, oc, a, amt)
    \/ \E u \in WithdrawalUsers, a \in ProvisionedAddrs, asset \in AllowAssets,
           amt \in WithdrawalAmounts, e \in ExpiryTimes, n \in Nonces :
            \E sig \in Signatures(u, a, asset, amt, e, n) :
                cardFundExecuteApprovedWithdrawal(u, a, asset, amt, e, n, sig)
    \/ \E t \in Times : Tick(t)

SpecWithdrawal == Init /\ [][NextWithdrawal]_vars

\* Allowlist: assets are added to and removed from the allow-list while the settler
\* moves units of asset 1 from the card fund into the Master and out to the
\* settlement address
AllowlistUsers == {"owner", "alice"}

NextAllowlist ==
    \/ Provision
    \/ \E u \in AllowlistUsers, pay \in {0, getAssetAllowlistMbr}, asset \in AllowAssets :
            assetAllowlistAdd(u, pay, asset, SettlementSink)
    \/ \E u \in AllowlistUsers, asset \in AssetIds : assetAllowlistRemove(u, asset)
    \/ \E amt \in Amounts, n \in Nonces : cardFundDebit("settler", AddrSeq[2], 1, amt, n)
    \/ \E amt \in Amounts, n \in Nonces : settle("settler", 1, amt, n)

SpecAllowlist == Init /\ [][NextAllowlist]_vars

\* Funds: the settler's payments and the owner's withdrawals on the same card fund,
\* with no cooling-off period, so that either can drain what the other relies on
FundsCardFund == AddrSeq[2]

NextFunds ==
    \/ Provision
    \/ \E amt \in Amounts, n \in Nonces : cardFundDebit("settler", FundsCardFund, 1, amt, n)
    \/ \E amt \in Amounts, n \in Nonces : cardFundRefund("settler", FundsCardFund, 1, amt, n)
    \/ \E amt \in Amounts, n \in Nonces : settle("settler", 1, amt, n)
    \/ \E oc \in {"NoOp", "OptIn"}, amt \in Amounts :
            cardFundInitPermissionlessWithdrawal("alice", oc, FundsCardFund, 1, amt)
    \/ \E amt \in Amounts :
            cardFundExecutePermissionlessWithdrawal("alice", "NoOp", FundsCardFund, amt)
    \/ \E amt \in Amounts, n \in Nonces :
            cardFundExecuteApprovedWithdrawal(
                "alice", FundsCardFund, 1, amt, 87400, n,
                SignatureFor("settler",
                             ApprovedWithdrawalRequest(FundsCardFund, "alice", 1, amt, 87400,
                                                       n, GenesisHash)))

SpecFunds == Init /\ [][NextFunds]_vars


\* Nonces: the provisioned card fund of alice and a second card fund of the owner on
\* the same partner channel, with debits and refunds on both, settlements, and
\* alice's withdrawals
SecondCardFund == AddrSeq[3]
NonceCardFunds == {FundsCardFund, SecondCardFund}

\* the amounts moved: nothing, or all there is
NonceAmounts == {0, MaxAmount}

NextNonces ==
    \/ Provision
    \/ accountsCreated = 2
            /\ cardFundDeployInit("owner", "NoOp", MinBalance + AssetOptInMinBalance,
                                  AddrSeq[1], 1, 0)
    \/ cardFundDeployComplete("owner", "NoOp", getCardFundBoxMbr(0), SecondCardFund)
    \/ \E f \in NonceCardFunds, amt \in NonceAmounts, n \in Nonces :
            cardFundDebit("settler", f, 1, amt, n)
    \/ \E f \in NonceCardFunds, amt \in NonceAmounts, n \in Nonces :
            cardFundRefund("settler", f, 1, amt, n)
    \/ \E amt \in NonceAmounts, n \in Nonces : settle("settler", 1, amt, n)
    \/ \E amt \in NonceAmounts :
            cardFundInitPermissionlessWithdrawal("alice", "NoOp", FundsCardFund, 1, amt)
    \/ \E amt \in NonceAmounts :
            cardFundExecutePermissionlessWithdrawal("alice", "NoOp", FundsCardFund, amt)
    \/ \E amt \in NonceAmounts, n \in Nonces :
            cardFundExecuteApprovedWithdrawal(
                "alice", FundsCardFund, 1, amt, 87400, n,
                SignatureFor("settler",
                             ApprovedWithdrawalRequest(FundsCardFund, "alice", 1, amt, 87400,
                                                       n, GenesisHash)))

SpecNonces == Init /\ [][NextNonces]_vars


\* Reserve: alice's withdrawal requests on the provisioned card fund under a
\* cooling-off period, with the settler's debits in between
NextReserve ==
    \/ Provision
    \/ \E w \in WaitTimes : setWithdrawalTimeout("owner", w)
    \/ \E amt \in Amounts :
            cardFundInitPermissionlessWithdrawal("alice", "NoOp", FundsCardFund, 1, amt)
    \/ \E amt \in Amounts, n \in Nonces : cardFundDebit("settler", FundsCardFund, 1, amt, n)
    \/ \E amt \in Amounts :
            cardFundExecutePermissionlessWithdrawal("alice", "NoOp", FundsCardFund, amt)
    \/ \E t \in Times : Tick(t)

SpecReserve == Init /\ [][NextReserve]_vars


\* Pause: the provisioned card fund through its whole life (withdrawals, settler
\* operations, asset close-out, close) while the pauser switches the pause flag
PauseAmounts == {0, MaxAmount}

NextPause ==
    \/ Provision
    \/ \E f \in BOOLEAN : setPaused("owner", f)
    \/ \E amt \in PauseAmounts :
            cardFundInitPermissionlessWithdrawal("alice", "NoOp", FundsCardFund, 1, amt)
    \/ cardFundWithdrawalCancel("alice", FundsCardFund)
    \/ \E amt \in PauseAmounts :
            cardFundExecutePermissionlessWithdrawal("alice", "NoOp", FundsCardFund, amt)
    \/ \E amt \in PauseAmounts, n \in Nonces :
            cardFundExecuteApprovedWithdrawal(
                "alice", FundsCardFund, 1, amt, 87400, n,
                SignatureFor("settler",
                             ApprovedWithdrawalRequest(FundsCardFund, "alice", 1, amt, 87400,
                                                       n, GenesisHash)))
    \/ \E amt \in PauseAmounts, n \in Nonces : cardFundDebit("settler", FundsCardFund, 1, amt, n)
    \/ \E amt \in PauseAmounts, n \in Nonces : cardFundRefund("settler", FundsCardFund, 1, amt, n)
    \/ \E amt \in PauseAmounts, n \in Nonces : settle("settler", 1, amt, n)
    \/ cardFundDisableAsset("alice", FundsCardFund, 1)
    \/ cardFundClose("alice", FundsCardFund)

SpecPause == Init /\ [][NextPause]_vars


\* Settlement: the allow-list of asset 1 and the settlement addresses of both assets,
\* with debits and settlements of the provisioned card fund
SettlementAddrs == {SettlementSink, "alice"}

NextSettlement ==
    \/ Provision
    \/ \E u \in AllowlistUsers, pay \in {0, getAssetAllowlistMbr}, asset \in AllowAssets :
            assetAllowlistAdd(u, pay, asset, SettlementSink)
    \/ \E u \in AllowlistUsers, asset \in AssetIds : assetAllowlistRemove(u, asset)
    \/ \E u \in AllowlistUsers, asset \in AssetIds, a \in SettlementAddrs :
            setSettlementAddress(u, asset, a)
    \/ \E amt \in Amounts, n \in Nonces : cardFundDebit("settler", FundsCardFund, 1, amt, n)
    \/ \E asset \in AssetIds, amt \in Amounts, n \in Nonces : settle("settler", asset, amt, n)

SpecSettlement == Init /\ [][NextSettlement]_vars

\* Deposits: one partner channel of the owner at a time, and one card fund of alice at
\* a time on a channel named with 4 characters, for every name and reference length
\* and with right and wrong payments; then the teardown of the contract
DepositUsers == {"owner", "alice"}
DepositPayAmounts ==
    {0, MinBalance}
        \cup {getPartnerChannelBoxMbr(n) : n \in NameLens}
        \cup {getCardFundBoxMbr(r) : r \in RefLens}

NextDeposits ==
    \/ ~deleted /\ \E oc \in {"NoOp", "OptIn"}, pay \in {0, MinBalance}, n \in NameLens :
             /\ DOMAIN authAddr = {}
             /\ partnerChannelDeployInit("owner", oc, pay, n)
    \/ ~deleted /\ \E u \in DepositUsers, pay \in DepositPayAmounts, a \in Addrs :
             partnerChannelDeployComplete(u, "NoOp", pay, a)
    \/ ~deleted /\ \E u \in DepositUsers, a \in Addrs : partnerChannelClose(u, a)
    \/ ~deleted /\ \E oc \in {"NoOp", "OptIn"}, pay \in {0, MinBalance}, pc \in Addrs, r \in RefLens :
             /\ DOMAIN authAddr = DOMAIN partnerChannels
             /\ \A c \in DOMAIN partnerChannels : partnerChannels[c].partnerChannelName = 4
             /\ cardFundDeployInit("alice", oc, pay, pc, NoAsset, r)
    \/ ~deleted /\ \E u \in DepositUsers, pay \in DepositPayAmounts, a \in Addrs :
             cardFundDeployComplete(u, "NoOp", pay, a)
    \/ ~deleted /\ \E u \in DepositUsers, a \in Addrs : cardFundClose(u, a)
    \/ ~deleted /\ \E u \in DepositUsers : destroy(u)

SpecDeposits == Init /\ [][NextDeposits]_vars

\* ------------------------------------------------------------------ claims
\* the index key of an active card fund
IndexKeyOf(cardFund) == <<cardFunds[cardFund].partnerChannel, cardFunds[cardFund].owner>>

\* C1: in every reachable state each (partnerChannel, owner) pair has at most one
\* active card fund; the index partnerCardFundOwner has, for every active card fund,
\* the entry of the fund's pair, and it maps to the fund's address; and the index has
\* no entry for a pair without an active fund.
C1_IndexMatchesActiveFunds ==
    /\ \A f \in DOMAIN cardFunds :
            /\ IndexKeyOf(f) \in DOMAIN partnerCardFundOwner
            /\ partnerCardFundOwner[IndexKeyOf(f)] = f
    /\ \A k \in DOMAIN partnerCardFundOwner :
            /\ partnerCardFundOwner[k] \in DOMAIN cardFunds
            /\ IndexKeyOf(partnerCardFundOwner[k]) = k
    /\ \A f, g \in DOMAIN cardFunds : IndexKeyOf(f) = IndexKeyOf(g) => f = g
    /\ Cardinality(DOMAIN partnerCardFundOwner) = Cardinality(DOMAIN cardFunds)

\* two card funds are active at once, each with its own index entry
C1_Witness ==
    /\ Cardinality(DOMAIN cardFunds) = 2
    /\ Cardinality(DOMAIN partnerCardFundOwner) = 2
    /\ accountsCreated = MaxAccounts

\* a Setup record stored for initiator u and sub-account a whose pair is indexed
LostRace(u, a) ==
    /\ u \in optedIn
    /\ <<u, a>> \in DOMAIN cardFundsSetup
    /\ <<cardFundsSetup[<<u, a>>].partnerChannel, u>> \in DOMAIN partnerCardFundOwner

\* C2: of two Setup records pending for the same (partnerChannel, initiator) pair only
\* one can be completed: a cardFundDeployComplete succeeds only for a pair that has no
\* index entry, and it adds exactly that entry and that card fund; once the pair is
\* indexed, completing the other Setup record fails with CARD_FUND_ALREADY_EXISTS for
\* every payment and OnCompletion, and a failed cardFundDeployComplete changes
\* nothing: not the registry, the index, cardFundsActiveCount or the Setup record.
C2_OnlyOneCompleteSucceeds ==
    /\ [](\A u \in RegistryUsers, a \in Addrs :
            LostRace(u, a) =>
                \A oc \in {"NoOp", "CloseOut"}, pay \in PayAmounts :
                    cardFundDeployCompleteError(u, oc, pay, a) = "CARD_FUND_ALREADY_EXISTS")
    /\ [][result'.op = "cardFundDeployComplete" =>
            IF result'.tag = "OK"
            THEN \E a \in Addrs :
                    /\ a \notin DOMAIN cardFunds
                    /\ DOMAIN cardFunds' = DOMAIN cardFunds \cup {a}
                    /\ <<cardFunds'[a].partnerChannel, cardFunds'[a].owner>>
                            \notin DOMAIN partnerCardFundOwner
                    /\ <<cardFunds'[a].owner, a>> \in DOMAIN cardFundsSetup
                    /\ cardFundsActiveCount' = cardFundsActiveCount + 1
            ELSE UNCHANGED ledgerVars]_vars

\* two Setup records were pending for one pair; one was completed, and completing the
\* other has just failed, its Setup record still stored
C2_Witness ==
    /\ result = Outcome("cardFundDeployComplete", "CARD_FUND_ALREADY_EXISTS")
    /\ \E u \in RegistryUsers, a \in Addrs :
            /\ LostRace(u, a)
            /\ partnerCardFundOwner[<<cardFundsSetup[<<u, a>>].partnerChannel, u>>]
                    \in DOMAIN cardFunds \ {a}

PaymentOps == {"cardFundDebit", "cardFundRefund"}

\* C3: cardFundDebit and cardFundRefund succeed only with nonce = paymentNonce + 1 and
\* then store that nonce; called by the settler while not paused with any other nonce
\* they fail with NONCE_INVALID; a failed call changes nothing.  paymentNonce changes
\* only by a successful debit or refund, by exactly 1, and the call that has just
\* succeeded fails when it is repeated.
C3_PaymentNonceSequence ==
    /\ [](\A u \in Users, a \in DOMAIN cardFunds, asset \in AssetIds, amount \in Amounts,
             n \in Nonces :
            /\ cardFundDebitError(u, a, asset, amount, n) = "OK"
                    => n = cardFunds[a].paymentNonce + 1
            /\ cardFundRefundError(u, a, asset, amount, n) = "OK"
                    => n = cardFunds[a].paymentNonce + 1
            /\ (~paused /\ u = settlerRoleAddress /\ n # cardFunds[a].paymentNonce + 1)
                    => /\ cardFundDebitError(u, a, asset, amount, n) = "NONCE_INVALID"
                       /\ cardFundRefundError(u, a, asset, amount, n) = "NONCE_INVALID")
    /\ [][/\ \A a \in DOMAIN cardFunds \cap DOMAIN cardFunds' :
                 IF result'.op \in PaymentOps /\ result'.tag = "OK"
                THEN cardFunds'[a].paymentNonce \in
                        {cardFunds[a].paymentNonce, cardFunds[a].paymentNonce + 1}
                ELSE cardFunds'[a].paymentNonce = cardFunds[a].paymentNonce
          /\ result'.op \in PaymentOps =>
                IF result'.tag = "OK"
                THEN \E a \in DOMAIN cardFunds :
                        cardFunds' = [cardFunds EXCEPT ![a].paymentNonce = @ + 1]
                ELSE UNCHANGED ledgerVars
          /\ \A u \in Users, a \in DOMAIN cardFunds, asset \in AssetIds,
                amount \in Amounts, n \in Nonces :
                /\ (cardFundDebit(u, a, asset, amount, n) /\ result'.tag = "OK")
                        => /\ cardFunds'[a].paymentNonce = n
                           /\ cardFundDebitError(u, a, asset, amount, n)' # "OK"
                /\ (cardFundRefund(u, a, asset, amount, n) /\ result'.tag = "OK")
                        => /\ cardFunds'[a].paymentNonce = n
                           /\ cardFundRefundError(u, a, asset, amount, n)' # "OK"]_vars

\* a card fund has seen MaxNonce payments, a debit moved units to the contract, and a
\* debit presenting a nonce other than paymentNonce + 1 has just been rejected
C3_Witness ==
    /\ result = Outcome("cardFundDebit", "NONCE_INVALID")
    /\ \E a \in DOMAIN cardFunds : cardFunds[a].paymentNonce = MaxNonce
    /\ IsOptedInToAsset(MasterAddr, 1) /\ holding[<<MasterAddr, 1>>] > 0

WithdrawalOps ==
    {"cardFundExecutePermissionlessWithdrawal", "cardFundExecuteApprovedWithdrawal"}

\* the Withdrawal events logged for one card fund, in order
EventsOf(cardFund) == SelectSeq(withdrawalEvents, LAMBDA e : e.cardFund = cardFund)

LastEvent(events) == events[Len(events)]

\* C4: a successful withdrawal of either kind logs one Withdrawal event whose nonce is
\* the card fund's previous withdrawalNonce + 1 and leaves that nonce stored in the card
\* fund; no other step changes a withdrawalNonce.  In every reachable state a card
\* fund's withdrawalNonce is the number of withdrawals executed on it, the i-th of
\* them having used nonce i.
C4_WithdrawalNonceCountsWithdrawals ==
    /\ [](\A f \in DOMAIN cardFunds :
            /\ cardFunds[f].withdrawalNonce = Len(EventsOf(f))
            /\ \A i \in 1..Len(EventsOf(f)) : EventsOf(f)[i].nonce = i)
    /\ [][IF result'.op \in WithdrawalOps /\ result'.tag = "OK"
           THEN /\ Len(withdrawalEvents') = Len(withdrawalEvents) + 1
                /\ LastEvent(withdrawalEvents').cardFund \in DOMAIN cardFunds
                /\ LastEvent(withdrawalEvents').nonce
                        = cardFunds[LastEvent(withdrawalEvents').cardFund].withdrawalNonce + 1
                /\ cardFunds'[LastEvent(withdrawalEvents').cardFund].withdrawalNonce
                        = LastEvent(withdrawalEvents').nonce
           ELSE /\ withdrawalEvents' = withdrawalEvents
                /\ \A f \in DOMAIN cardFunds \cap DOMAIN cardFunds' :
                        cardFunds'[f].withdrawalNonce = cardFunds[f].withdrawalNonce]_vars

\* a card fund has executed MaxNonce withdrawals, of both kinds
C4_Witness ==
    \E f \in DOMAIN cardFunds :
        /\ cardFunds[f].withdrawalNonce = MaxNonce
        /\ \E i, j \in 1..Len(EventsOf(f)) :
                /\ EventsOf(f)[i].type = WithdrawalTypeApproved
                /\ EventsOf(f)[j].type = WithdrawalTypePermissionLess

\* an approved withdrawal was executed on the request's card fund after the request
\* was made (with the request's nonce or a later one)
OvertakenByApproval(request) ==
    \E i \in 1..Len(withdrawalEvents) :
        /\ withdrawalEvents[i].type = WithdrawalTypeApproved
        /\ withdrawalEvents[i].cardFund = request.cardFund
        /\ withdrawalEvents[i].nonce >= request.nonce

\* C5: once an approved withdrawal has been executed on a card fund for which a
\* permissionless request was pending, every execution of that request by its owner,
\* for any amount up to the requested one and at any time, fails with NONCE_INVALID;
\* the approved withdrawal itself leaves all stored requests as they are.
C5_ApprovalInvalidatesPendingRequest ==
    /\ [](\A u \in WithdrawalUsers, f \in DOMAIN cardFunds :
            (/\ <<u, f>> \in DOMAIN withdrawals
             /\ u \in optedIn
             /\ OvertakenByApproval(withdrawals[<<u, f>>]))
                => \A oc \in {"NoOp", "CloseOut"}, amount \in 0..withdrawals[<<u, f>>].amount :
                        cardFundExecutePermissionlessWithdrawalError(u, oc, f, amount)
                            = "NONCE_INVALID")
    /\ [][result' = Outcome("cardFundExecuteApprovedWithdrawal", "OK")
            => withdrawals' = withdrawals]_vars

\* a request overtaken by an approved withdrawal is still stored, its cooling-off
\* period is over, and its execution has just been rejected with NONCE_INVALID
C5_Witness ==
    /\ result = Outcome("cardFundExecutePermissionlessWithdrawal", "NONCE_INVALID")
    /\ \E k \in DOMAIN withdrawals :
            /\ OvertakenByApproval(withdrawals[k])
            /\ withdrawalWaitTime > 0
            /\ now >= withdrawals[k].createdAt + withdrawalWaitTime

\* C6: executing a stored request whose nonce is current, for an amount up to the
\* requested one, fails with WITHDRAWAL_TIME_INVALID while the timestamp is less than
\* request.createdAt + withdrawalWaitTime, and is accepted at that timestamp and at
\* every later one when the card fund holds the amount (created at 1000 with wait
\* time 86400: rejected at 87399, accepted at 87400).
C6_CoolingOffPeriod ==
    \A u \in WithdrawalUsers, f \in DOMAIN cardFunds :
        (/\ <<u, f>> \in DOMAIN withdrawals
         /\ u \in optedIn
         /\ withdrawals[<<u, f>>].nonce = cardFunds[f].withdrawalNonce + 1)
            => \A oc \in {"NoOp", "CloseOut"}, amount \in 0..withdrawals[<<u, f>>].amount :
                    IF now < withdrawals[<<u, f>>].createdAt + withdrawalWaitTime
                    THEN cardFundExecutePermissionlessWithdrawalError(u, oc, f, amount)
                            = "WITHDRAWAL_TIME_INVALID"
                    ELSE assetBalance(f, withdrawals[<<u, f>>].asset) >= amount
                            => cardFundExecutePermissionlessWithdrawalError(u, oc, f, amount)
                                    = "OK"

\* the request made at 1000 under a wait time of 86400 has just been executed at 87400
C6_Witness ==
    /\ result = Outcome("cardFundExecutePermissionlessWithdrawal", "OK")
    /\ now = 87400
    /\ withdrawalWaitTime = 86400
    /\ LastEvent(withdrawalEvents).createdAt = 1000
    /\ LastEvent(withdrawalEvents).amount = MaxAmount

\* C7: a successful cardFundExecutePermissionlessWithdrawal deletes the request it
\* executed; a failed one changes nothing (no funds move); and while no request is
\* stored for (owner, cardFund), every execute by the owner fails with
\* WITHDRAWAL_REQUEST_NOT_FOUND.
C7_RequestExecutedOnce ==
    /\ [](\A u \in WithdrawalUsers, f \in DOMAIN cardFunds :
            (/\ cardFunds[f].owner = u
             /\ u \in optedIn
             /\ <<u, f>> \notin DOMAIN withdrawals)
                => \A oc \in {"NoOp", "CloseOut"}, amount \in Amounts :
                        cardFundExecutePermissionlessWithdrawalError(u, oc, f, amount)
                            = "WITHDRAWAL_REQUEST_NOT_FOUND")
    /\ [][result'.op = "cardFundExecutePermissionlessWithdrawal" =>
            IF result'.tag = "OK"
            THEN /\ LastEvent(withdrawalEvents').type = WithdrawalTypePermissionLess
                 /\ <<LastEvent(withdrawalEvents').recipient,
                       LastEvent(withdrawalEvents').cardFund>> \in DOMAIN withdrawals
                 /\ <<LastEvent(withdrawalEvents').recipient,
                       LastEvent(withdrawalEvents').cardFund>> \notin DOMAIN withdrawals'
            ELSE UNCHANGED ledgerVars]_vars

\* a request was executed, and a second execute without a new request has just been
\* rejected with WITHDRAWAL_REQUEST_NOT_FOUND
C7_Witness ==
    /\ result = Outcome("cardFundExecutePermissionlessWithdrawal",
                        "WITHDRAWAL_REQUEST_NOT_FOUND")
    /\ withdrawalEvents # <<>>
    /\ LastEvent(withdrawalEvents).type = WithdrawalTypePermissionLess
    /\ LastEvent(withdrawalEvents).recipient \in optedIn
    /\ <<LastEvent(withdrawalEvents).recipient, LastEvent(withdrawalEvents).cardFund>>
            \notin DOMAIN withdrawals

\* the request a call of cardFundExecuteApprovedWithdrawal by u stands for
RequestOfCall(u, f, asset, amount, expiresAt, n) ==
    ApprovedWithdrawalRequest(f, u, asset, amount, expiresAt, n, GenesisHash)

\* C8: cardFundExecuteApprovedWithdrawal succeeds only with a signature made by the
\* current settlerRoleAddress for exactly (cardFund, recipient = caller, asset, amount,
\* expiresAt, nonce, genesis hash of this chain); when the checks before the signature
\* pass and the signature is by another key or for a request differing in any one
\* field (card fund, recipient, asset, amount, expiry, nonce, genesis hash), the call
\* fails with SIGNATURE_INVALID; a failed call moves no funds and changes no nonce.
C8_SignatureBindsRequest ==
    /\ [](\A u \in WithdrawalUsers, f \in DOMAIN cardFunds, asset \in AssetIds,
             amount \in Amounts, expiresAt \in ExpiryTimes, n \in Nonces :
            (/\ cardFunds[f].owner = u
             /\ now < expiresAt
             /\ n = cardFunds[f].withdrawalNonce + 1)
                => \A k \in Users,
                      w \in RequestVariants(RequestOfCall(u, f, asset, amount, expiresAt, n)) :
                        IF /\ k = settlerRoleAddress
                           /\ w = RequestOfCall(u, f, asset, amount, expiresAt, n)
                        THEN cardFundExecuteApprovedWithdrawalError(
                                 u, f, asset, amount, expiresAt, n, SignatureFor(k, w))
                                 \in {"OK", "TRANSFER_REJECTED"}
                        ELSE cardFundExecuteApprovedWithdrawalError(
                                 u, f, asset, amount, expiresAt, n, SignatureFor(k, w))
                                 = "SIGNATURE_INVALID")
    /\ [][(result'.op = "cardFundExecuteApprovedWithdrawal" /\ result'.tag # "OK")
            => UNCHANGED ledgerVars]_vars

\* the settler role is set, the card fund holds the deposit and has executed no
\* withdrawal, and a call has just been rejected with SIGNATURE_INVALID
C8_Witness ==
    /\ result = Outcome("cardFundExecuteApprovedWithdrawal", "SIGNATURE_INVALID")
    /\ settlerRoleAddress = "settler"
    /\ \E f \in DOMAIN cardFunds :
            /\ cardFunds[f].withdrawalNonce = 0
            /\ assetBalance(f, 1) = MaxAmount

\* the outcome of presenting again, with a signature by k, the request of a logged
\* approved withdrawal
ReplayError(e, k) ==
    cardFundExecuteApprovedWithdrawalError(
        e.recipient, e.cardFund, e.asset, e.amount, e.expiresAt, e.nonce,
        SignatureFor(k, RequestOfCall(e.recipient, e.cardFund, e.asset, e.amount,
                                      e.expiresAt, e.nonce)))

ApprovedEvents ==
    {i \in 1..Len(withdrawalEvents) :
        /\ withdrawalEvents[i].type = WithdrawalTypeApproved
        /\ withdrawalEvents[i].cardFund \in DOMAIN cardFunds}

\* C9 as stated: after an approved withdrawal has succeeded, presenting the same
\* request and signature again fails with NONCE_INVALID in every later state in which
\* the card fund exists.
C9_ReplayFailsWithNonceInvalid ==
    \A i \in ApprovedEvents, k \in Users :
        ReplayError(withdrawalEvents[i], k) = "NONCE_INVALID"

\* C9 amended: after an approved withdrawal has succeeded, presenting the same request
\* and signature again never succeeds while the card fund exists: it fails with
\* NONCE_INVALID while the timestamp is before expiresAt, and with
\* WITHDRAWAL_TIME_INVALID from expiresAt on.
C9_ReplayNeverSucceeds ==
    \A i \in ApprovedEvents, k \in Users :
        ReplayError(withdrawalEvents[i], k) =
            IF now < withdrawalEvents[i].expiresAt THEN "NONCE_INVALID"
            ELSE "WITHDRAWAL_TIME_INVALID"

\* an approved withdrawal was executed, its approval has not expired, and an approved
\* withdrawal has just been rejected with NONCE_INVALID
C9_Witness ==
    /\ result = Outcome("cardFundExecuteApprovedWithdrawal", "NONCE_INVALID")
    /\ settlerRoleAddress = "settler"
    /\ \E i \in ApprovedEvents :
            /\ now < withdrawalEvents[i].expiresAt
            /\ withdrawalEvents[i].amount > 0

\* C10: a call of cardFundExecuteApprovedWithdrawal by the card fund's owner at a
\* timestamp greater than or equal to expiresAt fails with WITHDRAWAL_TIME_INVALID,
\* whatever the nonce and whoever signed the request, the settler included; a call is
\* accepted only while the timestamp is less than expiresAt.
C10_ExpiryCheckedFirst ==
    \A u \in WithdrawalUsers, f \in DOMAIN cardFunds, asset \in AssetIds,
       amount \in Amounts, expiresAt \in ExpiryTimes, n \in Nonces, k \in Users :
        /\ (cardFunds[f].owner = u /\ now >= expiresAt)
                => cardFundExecuteApprovedWithdrawalError(
                       u, f, asset, amount, expiresAt, n,
                       SignatureFor(k, RequestOfCall(u, f, asset, amount, expiresAt, n)))
                       = "WITHDRAWAL_TIME_INVALID"
        /\ cardFundExecuteApprovedWithdrawalError(
               u, f, asset, amount, expiresAt, n,
               SignatureFor(k, RequestOfCall(u, f, asset, amount, expiresAt, n))) = "OK"
                => now < expiresAt

\* the settler role is set, the card fund holds the deposit, every offered expiry has
\* passed, and a call has just been rejected with WITHDRAWAL_TIME_INVALID
C10_Witness ==
    /\ result = Outcome("cardFundExecuteApprovedWithdrawal", "WITHDRAWAL_TIME_INVALID")
    /\ settlerRoleAddress = "settler"
    /\ \A expiresAt \in ExpiryTimes : now >= expiresAt
    /\ \E f \in DOMAIN cardFunds : assetBalance(f, 1) = MaxAmount

\* C11: settle succeeds only if nonce = settlementNonce + 1 and a settlement address is
\* recorded for the asset; a successful settle pays the amount from the holding account
\* to that address and sets settlementNonce to the nonce.  A call by the settler while
\* not paused with a wrong nonce fails with NONCE_INVALID, and with the right nonce but
\* no recorded address with SETTLEMENT_ADDRESS_NOT_FOUND, both leaving settlementNonce
\* unchanged.  Over any step settlementNonce stays or grows by exactly 1, and it grows
\* only in a successful settle.
C11_SettlementNonceSequence ==
    /\ [](\A u \in Users, asset \in AssetIds, amount \in Amounts, n \in Nonces :
            /\ settleError(u, asset, amount, n) = "OK"
                    => (n = settlementNonce + 1 /\ asset \in DOMAIN settlementAddress)
            /\ (whenNotPaused /\ onlySettler(u) /\ n # settlementNonce + 1)
                    => settleError(u, asset, amount, n) = "NONCE_INVALID"
            /\ (/\ whenNotPaused
                /\ onlySettler(u)
                /\ n = settlementNonce + 1
                /\ asset \notin DOMAIN settlementAddress)
                    => settleError(u, asset, amount, n) = "SETTLEMENT_ADDRESS_NOT_FOUND")
    /\ [][/\ settlementNonce' \in {settlementNonce, settlementNonce + 1}
          /\ settlementNonce' # settlementNonce => result' = Outcome("settle", "OK")
          /\ result' = Outcome("settle", "OK") =>
                /\ settlementNonce' = settlementNonce + 1
                /\ \E asset \in DOMAIN settlementAddress, amount \in Amounts :
                        /\ settleError(settlerRoleAddress, asset, amount, settlementNonce')
                                = "OK"
                        /\ holding' = Transfer(holding, MasterAddr,
                                               settlementAddress[asset], asset, amount)
          /\ (result'.op = "settle" /\ result'.tag # "OK") =>
                UNCHANGED <<settlementNonce, holding>>]_vars

\* a settlement has paid debited units to the settlement address
C11_Witness ==
    /\ result = Outcome("settle", "OK")
    /\ settlementNonce = 1
    /\ holding[<<SettlementSink, 1>>] > 0

\* the operations reserved to the settler
SettlerOps == {"cardFundDebit", "cardFundRefund", "settle"}

ExecuteOps == {"cardFundExecutePermissionlessWithdrawal", "cardFundExecuteApprovedWithdrawal"}

TransferOps == SettlerOps \cup ExecuteOps

\* C14: no account's asset balance is ever negative: cardFundDebit, cardFundRefund,
\* settle and both withdrawal executions fail as a whole when the amount exceeds the
\* source account's balance of the asset (the card fund for a debit and a withdrawal,
\* the holding account for a refund and a settlement), and the failed call advances no
\* nonce, deletes no pending request and moves nothing.
C14_NoNegativeBalance ==
    /\ [](/\ \A k \in DOMAIN holding : holding[k] >= 0
          /\ \A u \in Users, f \in DOMAIN cardFunds, asset \in AssetIds, amount \in Amounts,
                n \in Nonces :
                /\ amount > assetBalance(f, asset) =>
                    /\ cardFundDebitError(u, f, asset, amount, n) # "OK"
                    /\ cardFundExecutePermissionlessWithdrawalError(u, "NoOp", f, amount)
                            = "OK" => withdrawals[<<u, f>>].asset # asset
                    /\ \A expiresAt \in ExpiryTimes :
                            cardFundExecuteApprovedWithdrawalError(
                                u, f, asset, amount, expiresAt, n,
                                SignatureFor(settlerRoleAddress,
                                             RequestOfCall(u, f, asset, amount, expiresAt, n)))
                                # "OK"
                /\ amount > assetBalance(MasterAddr, asset) =>
                    /\ cardFundRefundError(u, f, asset, amount, n) # "OK"
                    /\ settleError(u, asset, amount, n) # "OK")
    /\ [][(result'.op \in TransferOps /\ result'.tag # "OK") =>
            UNCHANGED <<cardFunds, settlementNonce, withdrawals, holding>>]_vars

\* a request for the whole deposit is pending, the settler has since debited the card
\* fund, and the execution of the request has just been rejected by the ledger
C14_Witness ==
    /\ result = Outcome("cardFundExecutePermissionlessWithdrawal", "TRANSFER_REJECTED")
    /\ <<"alice", FundsCardFund>> \in DOMAIN withdrawals
    /\ withdrawals[<<"alice", FundsCardFund>>].amount = MaxAmount
    /\ assetBalance(FundsCardFund, 1) < MaxAmount
    /\ cardFunds[FundsCardFund].withdrawalNonce = 0

RECURSIVE SumOver(_, _)
\* the sum of f over the set S
SumOver(f, S) ==
    IF S = {} THEN 0
    ELSE LET x == CHOOSE y \in S : TRUE IN f[x] + SumOver(f, S \ {x})

\* the deposits the contract holds for its boxes
BoxDeposits ==
    SumOver([c \in DOMAIN partnerChannels |->
                getPartnerChannelBoxMbr(partnerChannels[c].partnerChannelName)],
            DOMAIN partnerChannels)
    + SumOver([f \in DOMAIN cardFunds |-> getCardFundBoxMbr(cardFunds[f].reference)],
              DOMAIN cardFunds)

\* what u has paid for card funds that are being set up or are active
CardFundDepositsOf(u) ==
    MinBalance * Cardinality({k \in DOMAIN cardFundsSetup : k[1] = u})
    + SumOver([f \in DOMAIN cardFunds |->
                    MinBalance + getCardFundBoxMbr(cardFunds[f].reference)],
              {f \in DOMAIN cardFunds : cardFunds[f].owner = u})

\* C15: in card-fund lifecycles without asset opt-in, for every reference length 0..62,
\* what cardFundDeployInit and cardFundDeployComplete charge the caller is what
\* cardFundClose pays back: init charges the minimum balance and passes it to the
\* sub-account, complete charges getCardFundBoxMbr(reference) to the Master, and close
\* returns both to the closer.  So the caller's Algo balance is short by exactly the
\* deposits of its unfinished and active card funds, and the Master holds exactly its
\* own minimum balance and the box deposits of the active records: after the close both
\* balances are what they were before the init.
C15_CardFundDepositsRefunded ==
    /\ [](/\ balance["alice"] = InitialAlgo - CardFundDepositsOf("alice")
          /\ ~deleted => balance[MasterAddr] = MinBalance + BoxDeposits)
    /\ [][/\ result' = Outcome("cardFundDeployInit", "OK") =>
                /\ balance'[MasterAddr] = balance[MasterAddr]
                /\ balance'["alice"] = balance["alice"] - MinBalance
          /\ result' = Outcome("cardFundDeployComplete", "OK") =>
                \E f \in DOMAIN cardFunds' \ DOMAIN cardFunds :
                    /\ cardFunds'[f].reference \in 0..MaxCardFundReferenceLength
                    /\ balance'[MasterAddr]
                            = balance[MasterAddr] + getCardFundBoxMbr(cardFunds'[f].reference)
                    /\ balance'[cardFunds'[f].owner]
                            = balance[cardFunds'[f].owner]
                                - getCardFundBoxMbr(cardFunds'[f].reference)
          /\ result' = Outcome("cardFundClose", "OK") =>
                \E f \in DOMAIN cardFunds \ DOMAIN cardFunds' :
                    /\ balance'[MasterAddr]
                            = balance[MasterAddr] - getCardFundBoxMbr(cardFunds[f].reference)
                    /\ balance'[cardFunds[f].owner]
                            = balance[cardFunds[f].owner] + MinBalance
                                + getCardFundBoxMbr(cardFunds[f].reference)]_vars

\* alice has closed her card fund and holds again what she held before the init; the
\* Master holds its own minimum balance and the deposit of the partner channel's box
C15_Witness ==
    /\ result = Outcome("cardFundClose", "OK")
    /\ cardFunds = EmptyMap
    /\ cardFundsSetup = EmptyMap
    /\ balance["alice"] = InitialAlgo
    /\ balance[MasterAddr] = MinBalance + getPartnerChannelBoxMbr(4)

\* the box deposit of a partner channel whose name has n characters
PartnerChannelDeposit(n) == 2500 + 400 * ((2 + 32) + (2 + 32 + 32 + (2 + n)))

\* C16: for every name length n in 0..32, partnerChannelDeployComplete by the holder
\* of the Setup record accepts only a payment of exactly
\* 2500 + 400*((2+32)+(2+32+32+(2+n))), which is 44900 for a 4-character name, and
\* fails with any other amount; a successful complete moves that amount to the Master,
\* and a successful partnerChannelClose pays the closer exactly that amount out of the
\* Master's balance, next to the remainder of the closed sub-account.
C16_PartnerChannelDeposit ==
    /\ [](/\ PartnerChannelDeposit(4) = 44900
          /\ \A u \in DepositUsers, a \in Addrs, pay \in DepositPayAmounts :
                (u \in optedIn /\ <<u, a>> \in DOMAIN partnerChannelsSetup) =>
                    LET n == partnerChannelsSetup[<<u, a>>].partnerChannelName IN
                    /\ n \in 0..MaxPartnerChannelNameLength
                    /\ partnerChannelDeployCompleteError(u, "NoOp", pay, a) = "OK"
                            => pay = PartnerChannelDeposit(n)
                    /\ pay # PartnerChannelDeposit(n)
                            => partnerChannelDeployCompleteError(u, "NoOp", pay, a)
                                    = "PAYMENT_INVALID")
    /\ [][/\ result' = Outcome("partnerChannelDeployComplete", "OK") =>
                \E c \in DOMAIN partnerChannels' \ DOMAIN partnerChannels :
                    LET n == partnerChannels'[c].partnerChannelName IN
                    /\ balance'[MasterAddr] = balance[MasterAddr] + PartnerChannelDeposit(n)
                    /\ balance'[partnerChannels'[c].owner]
                            = balance[partnerChannels'[c].owner] - PartnerChannelDeposit(n)
          /\ result' = Outcome("partnerChannelClose", "OK") =>
                \E c \in DOMAIN partnerChannels \ DOMAIN partnerChannels' :
                    LET n == partnerChannels[c].partnerChannelName IN
                    /\ balance'[MasterAddr] = balance[MasterAddr] - PartnerChannelDeposit(n)
                    /\ balance'[partnerChannels[c].owner]
                            = balance[partnerChannels[c].owner] + balance[c]
                                + PartnerChannelDeposit(n)]_vars

\* the owner has closed the only partner channel and got back the box deposit and the
\* sub-account's balance
C16_Witness ==
    /\ result = Outcome("partnerChannelClose", "OK")
    /\ accountsCreated = 1
    /\ partnerChannels = EmptyMap
    /\ balance["owner"] = InitialAlgo
    /\ balance[MasterAddr] = MinBalance

\* C17: cardFundsActiveCount is the number of CardFund records and
\* partnerChannelsActiveCount is the number of PartnerChannel records.  A successful
\* cardFundDeployComplete / partnerChannelDeployComplete adds exactly 1 to its counter,
\* a successful cardFundClose / partnerChannelClose subtracts exactly 1, every other
\* call and every failed call leaves both counters as they were, and a counter is
\* only ever decremented when it is at least 1.
C17_ActiveCounts ==
    /\ [](/\ cardFundsActiveCount = Cardinality(DOMAIN cardFunds)
          /\ partnerChannelsActiveCount = Cardinality(DOMAIN partnerChannels))
    /\ [][/\ cardFundsActiveCount' =
                IF result' = Outcome("cardFundDeployComplete", "OK")
                    THEN cardFundsActiveCount + 1
                ELSE IF result' = Outcome("cardFundClose", "OK")
                    THEN cardFundsActiveCount - 1
                ELSE cardFundsActiveCount
          /\ partnerChannelsActiveCount' =
                IF result' = Outcome("partnerChannelDeployComplete", "OK")
                    THEN partnerChannelsActiveCount + 1
                ELSE IF result' = Outcome("partnerChannelClose", "OK")
                    THEN partnerChannelsActiveCount - 1
                ELSE partnerChannelsActiveCount
          /\ cardFundsActiveCount' < cardFundsActiveCount => cardFundsActiveCount >= 1
          /\ partnerChannelsActiveCount' < partnerChannelsActiveCount
                => partnerChannelsActiveCount >= 1]_vars

\* the last card fund has just been closed while a partner channel is still active
C17_Witness ==
    /\ result = Outcome("cardFundClose", "OK")
    /\ cardFundsActiveCount = 0
    /\ cardFunds = EmptyMap
    /\ partnerChannelsActiveCount = 1

\* C18: destroy succeeds only when the sender is the contract owner and neither a
\* CardFund record nor a PartnerChannel record exists.  Called by the owner, it fails
\* with CARDFUNDS_STILL_ACTIVE while a card fund is active, and with
\* PARTNERCHANNELS_STILL_ACTIVE while a partner channel is active and no card fund is
\* (the card-fund check comes first).  A failed destroy deletes nothing.
C18_DestroyOnlyWhenEmpty ==
    /\ [](\A u \in Users :
            /\ destroyError(u) = "OK" =>
                    /\ u = owner
                    /\ DOMAIN cardFunds = {}
                    /\ DOMAIN partnerChannels = {}
            /\ (u = owner /\ DOMAIN cardFunds # {}) =>
                    destroyError(u) = "CARDFUNDS_STILL_ACTIVE"
            /\ (u = owner /\ DOMAIN cardFunds = {} /\ DOMAIN partnerChannels # {}) =>
                    destroyError(u) = "PARTNERCHANNELS_STILL_ACTIVE")
    /\ [][/\ result' = Outcome("destroy", "OK") =>
                /\ DOMAIN cardFunds = {}
                /\ DOMAIN partnerChannels = {}
                /\ deleted'
          /\ (result'.op = "destroy" /\ result'.tag # "OK") =>
                /\ result'.tag \in {"SENDER_NOT_ALLOWED", "CARDFUNDS_STILL_ACTIVE",
                                    "PARTNERCHANNELS_STILL_ACTIVE"}
                /\ UNCHANGED <<deleted, balance, cardFunds, partnerChannels>>
          /\ deleted' # deleted => result' = Outcome("destroy", "OK")]_vars

\* the owner destroyed the contract after a partner channel and a card fund had been
\* created and closed again
C18_Witness ==
    /\ result = Outcome("destroy", "OK")
    /\ deleted
    /\ accountsCreated >= 2
    /\ DOMAIN cardFunds = {}
    /\ DOMAIN partnerChannels = {}

InitOps == {"cardFundDeployInit", "partnerChannelDeployInit"}

\* the registry: the records, the one-fund-per-partner index and the active counters
registry ==
    <<cardFunds, partnerChannels, partnerCardFundOwner, cardFundsActiveCount,
      partnerChannelsActiveCount>>

\* C19: cardFundDeployInit and partnerChannelDeployInit leave cardFunds,
\* partnerChannels, the partnerCardFundOwner index and both active counters unchanged,
\* whether they succeed or fail.  A successful init creates one sub-account controlled
\* by the contract, funds it, and adds exactly one Setup record, keyed by the caller
\* and the new address, to the caller's local state; every other Setup record stays as
\* it was.  An address that is only set up is in neither registry.
C19_InitLeavesRegistry ==
    /\ [](/\ \A k \in DOMAIN cardFundsSetup : k[2] \notin DOMAIN cardFunds
          /\ \A k \in DOMAIN partnerChannelsSetup : k[2] \notin DOMAIN partnerChannels)
    /\ [][/\ result'.op \in InitOps => UNCHANGED registry
          /\ (result'.op \in InitOps /\ result'.tag # "OK") =>
                UNCHANGED <<cardFundsSetup, partnerChannelsSetup, authAddr, balance>>
          /\ result' = Outcome("cardFundDeployInit", "OK") =>
                /\ UNCHANGED partnerChannelsSetup
                /\ \E u \in Users :
                    /\ u \in optedIn'
                    /\ <<u, NewAddress>> \notin DOMAIN cardFundsSetup
                    /\ DOMAIN cardFundsSetup' = DOMAIN cardFundsSetup \cup {<<u, NewAddress>>}
                /\ \A k \in DOMAIN cardFundsSetup : cardFundsSetup'[k] = cardFundsSetup[k]
                /\ NewAddress \notin DOMAIN authAddr
                /\ authAddr'[NewAddress] = MasterAddr
                /\ balance'[NewAddress] >= MinBalance
          /\ result' = Outcome("partnerChannelDeployInit", "OK") =>
                /\ UNCHANGED cardFundsSetup
                /\ \E u \in Users :
                    /\ u \in optedIn'
                    /\ <<u, NewAddress>> \notin DOMAIN partnerChannelsSetup
                    /\ DOMAIN partnerChannelsSetup'
                            = DOMAIN partnerChannelsSetup \cup {<<u, NewAddress>>}
                /\ \A k \in DOMAIN partnerChannelsSetup :
                        partnerChannelsSetup'[k] = partnerChannelsSetup[k]
                /\ NewAddress \notin DOMAIN authAddr
                /\ authAddr'[NewAddress] = MasterAddr
                /\ balance'[NewAddress] = MinBalance]_vars

\* several init calls have been abandoned: their Setup records are pending and no
\* card fund has been registered
C19_Witness ==
    /\ result.op \in InitOps
    /\ result.tag = "OK"
    /\ Cardinality(DOMAIN cardFundsSetup) + Cardinality(DOMAIN partnerChannelsSetup) >= 2
    /\ cardFunds = EmptyMap
    /\ cardFundsActiveCount = 0
    /\ partnerCardFundOwner = EmptyMap

CompleteOnCompletions == {"NoOp", "CloseOut"}

\* C20: only the initiator can finalize.  A Setup record for an address is written
\* only by the init call that created the address, under the caller of that call, so
\* at most one account holds it.  cardFundDeployComplete(addr) /
\* partnerChannelDeployComplete(addr) by an opted-in account that does not hold the
\* Setup record for addr fails with CARD_FUND_NOT_FOUND / PARTNER_CHANNEL_NOT_FOUND,
\* and no account without the record can succeed.  A successful finalize records the
\* holder of the Setup record as owner and deletes the record, so that a second
\* finalize of the same address fails for every caller (with the NOT_FOUND tag for a
\* caller that is still opted in).
C20_OnlyInitiatorFinalizes ==
    /\ [](/\ \A k1, k2 \in DOMAIN cardFundsSetup : k1[2] = k2[2] => k1 = k2
          /\ \A k1, k2 \in DOMAIN partnerChannelsSetup : k1[2] = k2[2] => k1 = k2
          /\ \A u \in RegistryUsers, a \in Addrs, oc \in CompleteOnCompletions,
                pay \in RegistryPayAmounts :
                /\ <<u, a>> \notin DOMAIN cardFundsSetup =>
                    /\ cardFundDeployCompleteError(u, oc, pay, a) # "OK"
                    /\ u \in optedIn =>
                        cardFundDeployCompleteError(u, oc, pay, a) = "CARD_FUND_NOT_FOUND"
                /\ <<u, a>> \notin DOMAIN partnerChannelsSetup =>
                    /\ partnerChannelDeployCompleteError(u, oc, pay, a) # "OK"
                    /\ u \in optedIn =>
                        partnerChannelDeployCompleteError(u, oc, pay, a)
                            = "PARTNER_CHANNEL_NOT_FOUND")
    /\ [][/\ \A k \in DOMAIN cardFundsSetup' \ DOMAIN cardFundsSetup :
                result' = Outcome("cardFundDeployInit", "OK") /\ k[2] = NewAddress
          /\ \A k \in DOMAIN partnerChannelsSetup' \ DOMAIN partnerChannelsSetup :
                result' = Outcome("partnerChannelDeployInit", "OK") /\ k[2] = NewAddress
          /\ result' = Outcome("cardFundDeployComplete", "OK") =>
                \E k \in DOMAIN cardFundsSetup :
                    /\ DOMAIN cardFunds' = DOMAIN cardFunds \cup {k[2]}
                    /\ k[2] \notin DOMAIN cardFunds
                    /\ cardFunds'[k[2]].owner = k[1]
                    /\ \A u \in RegistryUsers : <<u, k[2]>> \notin DOMAIN cardFundsSetup'
                    /\ \A u \in RegistryUsers, oc \in CompleteOnCompletions,
                          pay \in RegistryPayAmounts :
                        /\ cardFundDeployCompleteError(u, oc, pay, k[2])' # "OK"
                        /\ u \in optedIn' =>
                            cardFundDeployCompleteError(u, oc, pay, k[2])'
                                = "CARD_FUND_NOT_FOUND"
          /\ result' = Outcome("partnerChannelDeployComplete", "OK") =>
                \E k \in DOMAIN partnerChannelsSetup :
                    /\ DOMAIN partnerChannels' = DOMAIN partnerChannels \cup {k[2]}
                    /\ k[2] \notin DOMAIN partnerChannels
                    /\ partnerChannels'[k[2]].owner = k[1]
                    /\ \A u \in RegistryUsers : <<u, k[2]>> \notin DOMAIN partnerChannelsSetup'
                    /\ \A u \in RegistryUsers, oc \in CompleteOnCompletions,
                          pay \in RegistryPayAmounts :
                        /\ partnerChannelDeployCompleteError(u, oc, pay, k[2])' # "OK"
                        /\ u \in optedIn' =>
                            partnerChannelDeployCompleteError(u, oc, pay, k[2])'
                                = "PARTNER_CHANNEL_NOT_FOUND"]_vars

\* a finalize was refused with PARTNER_CHANNEL_NOT_FOUND after the partner channel had
\* been finalized by its initiator: no Setup record is left for anyone to finalize
C20_Witness ==
    /\ result = Outcome("partnerChannelDeployComplete", "PARTNER_CHANNEL_NOT_FOUND")
    /\ DOMAIN partnerChannels = {AddrSeq[1]}
    /\ partnerChannelsSetup = EmptyMap

\* the tags with which cardFundWithdrawalCancel's own assertions and the ledger's
\* local-state access reject a call
CancelRejections ==
    {"CARD_FUND_NOT_FOUND", "SENDER_NOT_ALLOWED", "NOT_OPTED_IN",
     "WITHDRAWAL_REQUEST_NOT_FOUND"}

\* C21: whenever a permissionless withdrawal request is stored for (owner, cardFund),
\* a cardFundWithdrawalCancel(cardFund) call by that owner succeeds and deletes the
\* request: a cancel call that is not rejected for a missing card fund, a foreign
\* sender or a missing request ends with OK and removes a stored request.
C21_OwnerCancelSucceeds ==
    [][(result'.op = "cardFundWithdrawalCancel" /\ result'.tag \notin CancelRejections) =>
            /\ result'.tag = "OK"
            /\ \E k \in DOMAIN withdrawals :
                /\ cardFunds[k[2]].owner = k[1]
                /\ DOMAIN withdrawals' = DOMAIN withdrawals \ {k}]_vars

\* C22: cardFundClose fails with CARD_FUND_NOT_FOUND when the fund has no record and
\* with SENDER_NOT_ALLOWED when the sender is not the fund's recorded owner, so it
\* succeeds only for the recorded owner.  A successful close deletes the CardFund
\* record and the index entry of (fund.partnerChannel, fund.owner) and decrements
\* cardFundsActiveCount by 1; a failed close changes nothing.  Before the close the
\* owner's cardFundDeployInit under the same partner channel is refused with
\* CARD_FUND_ALREADY_EXISTS; after it, while the partner channel exists, it is accepted.
C22_CardFundClose ==
    /\ [](\A u \in RegistryUsers, f \in Addrs :
            /\ f \notin DOMAIN cardFunds => cardFundCloseError(u, f) = "CARD_FUND_NOT_FOUND"
            /\ (f \in DOMAIN cardFunds /\ cardFunds[f].owner # u) =>
                    cardFundCloseError(u, f) = "SENDER_NOT_ALLOWED"
            /\ cardFundCloseError(u, f) = "OK" =>
                    (f \in DOMAIN cardFunds /\ cardFunds[f].owner = u))
    /\ [][/\ (result'.op = "cardFundClose" /\ result'.tag # "OK") =>
                UNCHANGED <<cardFunds, partnerCardFundOwner, cardFundsActiveCount, balance,
                            authAddr>>
          /\ result' = Outcome("cardFundClose", "OK") =>
                \E f \in DOMAIN cardFunds :
                    LET fund == cardFunds[f]
                        key == PartnerCardFundOwnerKey(fund.partnerChannel, fund.owner)
                    IN
                    /\ DOMAIN cardFunds' = DOMAIN cardFunds \ {f}
                    /\ key \in DOMAIN partnerCardFundOwner
                    /\ DOMAIN partnerCardFundOwner' = DOMAIN partnerCardFundOwner \ {key}
                    /\ cardFundsActiveCount' = cardFundsActiveCount - 1
                    /\ fund.partnerChannel \in DOMAIN partnerChannels =>
                        /\ \A oc \in {"NoOp", "OptIn"} :
                            OnCompletionOk(fund.owner, oc) =>
                                cardFundDeployInitError(fund.owner, oc, MinBalance,
                                                        fund.partnerChannel, NoAsset, 0)
                                    = "CARD_FUND_ALREADY_EXISTS"
                        /\ \E oc \in {"NoOp", "OptIn"}, o \in RegistryUsers, pc \in Addrs :
                                /\ o = fund.owner
                                /\ pc = fund.partnerChannel
                                /\ cardFundDeployInitError(o, oc, MinBalance, pc,
                                                           NoAsset, 0)' = "OK"]_vars

\* alice has just closed her card fund: record and index entry are gone, and she is
\* again accepted for a new card fund under the partner channel
C22_Witness ==
    /\ result = Outcome("cardFundClose", "OK")
    /\ DOMAIN partnerChannels = {AddrSeq[1]}
    /\ cardFunds = EmptyMap
    /\ partnerCardFundOwner = EmptyMap
    /\ "alice" \in optedIn
    /\ cardFundDeployInitError("alice", "NoOp", MinBalance, AddrSeq[1], NoAsset, 0) = "OK"

\* C23 as stated: cardFundClose is accepted from the contract owner for a card fund it
\* does not own, that is, the contract owner is never refused as sender.
C23_ContractOwnerMayClose ==
    \A f \in DOMAIN cardFunds : cardFundCloseError(owner, f) # "SENDER_NOT_ALLOWED"

\* C23, amended: cardFundClose is accepted from the card fund's recorded owner only.
\* The contract owner's close of a card fund it does not own fails with
\* SENDER_NOT_ALLOWED and changes nothing, and every successful close pays the
\* sub-account's balance and the box deposit to the fund's recorded owner.
C23_OnlyFundOwnerCloses ==
    /\ [](\A f \in DOMAIN cardFunds :
            cardFunds[f].owner # owner => cardFundCloseError(owner, f) = "SENDER_NOT_ALLOWED")
    /\ [][/\ result' = Outcome("cardFundClose", "OK") =>
                \E f \in DOMAIN cardFunds \ DOMAIN cardFunds' :
                    balance'[cardFunds[f].owner]
                        = balance[cardFunds[f].owner] + balance[f]
                            + getCardFundBoxMbr(cardFunds[f].reference)
          /\ result' = Outcome("cardFundClose", "SENDER_NOT_ALLOWED") =>
                UNCHANGED <<cardFunds, cardFundsActiveCount, partnerCardFundOwner, balance>>]_vars

\* a close was refused with SENDER_NOT_ALLOWED while every card fund belonged to
\* alice: the refused sender is the contract owner
C23_Witness ==
    /\ result = Outcome("cardFundClose", "SENDER_NOT_ALLOWED")
    /\ owner = "owner"
    /\ DOMAIN cardFunds # {}
    /\ \A f \in DOMAIN cardFunds : cardFunds[f].owner = "alice"

\* C24: partnerChannelClose fails with PARTNER_CHANNEL_NOT_FOUND when the address has
\* no record and with SENDER_NOT_ALLOWED when the sender is not the channel's recorded
\* owner, the contract owner included; a failed close changes nothing.  A successful
\* close deletes exactly that record and decrements partnerChannelsActiveCount by 1.
C24_PartnerChannelClose ==
    /\ [](\A u \in RegistryUsers, c \in Addrs :
            /\ c \notin DOMAIN partnerChannels =>
                    partnerChannelCloseError(u, c) = "PARTNER_CHANNEL_NOT_FOUND"
            /\ (c \in DOMAIN partnerChannels /\ partnerChannels[c].owner # u) =>
                    partnerChannelCloseError(u, c) = "SENDER_NOT_ALLOWED"
            /\ (c \in DOMAIN partnerChannels /\ partnerChannels[c].owner = u) =>
                    partnerChannelCloseError(u, c) = "OK")
    /\ [][/\ (result'.op = "partnerChannelClose" /\ result'.tag # "OK") =>
                /\ result'.tag \in {"PARTNER_CHANNEL_NOT_FOUND", "SENDER_NOT_ALLOWED"}
                /\ UNCHANGED ledgerVars
          /\ result' = Outcome("partnerChannelClose", "OK") =>
                /\ \E c \in DOMAIN partnerChannels :
                    /\ partnerChannels' = Remove(partnerChannels, c)
                    /\ c \notin DOMAIN authAddr'
                /\ partnerChannelsActiveCount' = partnerChannelsActiveCount - 1
                /\ UNCHANGED <<cardFunds, cardFundsActiveCount, partnerCardFundOwner>>]_vars

\* the contract owner was refused when closing alice's partner channel
C24_Witness ==
    /\ result = Outcome("partnerChannelClose", "SENDER_NOT_ALLOWED")
    /\ owner = "owner"
    /\ DOMAIN partnerChannels # {}
    /\ \A c \in DOMAIN partnerChannels : partnerChannels[c].owner = "alice"

\* C25: cardFundInitPermissionlessWithdrawal by the fund's owner (opting in with the
\* call if it holds no local state yet) fails with
\* INSUFFICIENT_BALANCE when amount exceeds the fund's balance of the asset and
\* succeeds only for an amount within it.  A successful call stores under the key
\* (owner, cardFund) the request (cardFund, asset, amount, createdAt = latest
\* timestamp, nonce = withdrawalNonce + 1); a request already stored under that key is
\* replaced, so the key holds one request, carrying the new createdAt and nonce, and
\* every other stored request is left as it was.
C25_InitPermissionlessWithdrawal ==
    /\ [](/\ \A k \in DOMAIN withdrawals : withdrawals[k].cardFund = k[2]
          /\ \A u \in WithdrawalUsers, f \in DOMAIN cardFunds, asset \in AllowAssets,
                amount \in WithdrawalAmounts, oc \in {"NoOp", "OptIn"} :
                (cardFunds[f].owner = u /\ (oc = "OptIn") = (u \notin optedIn)) =>
                    /\ amount > assetBalance(f, asset) =>
                        cardFundInitPermissionlessWithdrawalError(u, oc, f, asset, amount)
                            = "INSUFFICIENT_BALANCE"
                    /\ amount <= assetBalance(f, asset) =>
                        cardFundInitPermissionlessWithdrawalError(u, oc, f, asset, amount)
                            = "OK")
    /\ [][result' = Outcome("cardFundInitPermissionlessWithdrawal", "OK") =>
            \E f \in DOMAIN cardFunds :
                LET k == <<cardFunds[f].owner, f>> IN
                /\ DOMAIN withdrawals' = DOMAIN withdrawals \cup {k}
                /\ \A j \in DOMAIN withdrawals \ {k} : withdrawals'[j] = withdrawals[j]
                /\ withdrawals'[k].cardFund = f
                /\ withdrawals'[k].amount <= assetBalance(f, withdrawals'[k].asset)
                /\ withdrawals'[k].createdAt = now
                /\ withdrawals'[k].nonce = cardFunds[f].withdrawalNonce + 1
                /\ UNCHANGED <<cardFunds, holding>>]_vars

\* a request made at a later time and for a later nonce than the first possible one
\* is stored: it carries the timestamp and nonce of its own call
C25_Witness ==
    /\ result = Outcome("cardFundInitPermissionlessWithdrawal", "OK")
    /\ now >= 1000
    /\ \E k \in DOMAIN withdrawals :
        /\ withdrawals[k].createdAt = now
        /\ withdrawals[k].nonce = 2
        /\ cardFunds[k[2]].withdrawalNonce = 1

InitRejections ==
    {"CARD_FUND_ALREADY_EXISTS", "PARTNER_CHANNEL_NOT_FOUND", "CARD_FUND_REFERENCE_TOO_LONG"}

\* C26: cardFundDeployInit is rejected whenever the index holds an entry for
\* (partnerChannel, caller), whenever the partner channel has no record, and whenever
\* the reference is longer than 62.  The tag is PARTNER_CHANNEL_NOT_FOUND when the
\* channel has no record, otherwise CARD_FUND_REFERENCE_TOO_LONG when the reference is
\* too long, otherwise CARD_FUND_ALREADY_EXISTS when the index holds the entry (the
\* order of the checks).  A call rejected with one of these tags keeps no deposit,
\* creates no sub-account and writes no Setup record.
C26_InitRejections ==
    /\ [](\A u \in RegistryUsers, oc \in {"NoOp", "OptIn"}, pay \in RegistryPayAmounts,
             pc \in Addrs, asset \in {NoAsset} \cup AllowAssets, r \in RegistryRefLens :
            (oc = "OptIn") = (u \notin optedIn) =>
                LET err == cardFundDeployInitError(u, oc, pay, pc, asset, r)
                    noChannel == pc \notin DOMAIN partnerChannels
                    tooLong == r > 62
                    indexed == PartnerCardFundOwnerKey(pc, u) \in DOMAIN partnerCardFundOwner
                IN
                /\ (noChannel \/ tooLong \/ indexed) => err \in InitRejections
                /\ noChannel => err = "PARTNER_CHANNEL_NOT_FOUND"
                /\ (tooLong /\ ~noChannel) => err = "CARD_FUND_REFERENCE_TOO_LONG"
                /\ (indexed /\ ~noChannel /\ ~tooLong) => err = "CARD_FUND_ALREADY_EXISTS"
                /\ err = "OK" => (~noChannel /\ ~tooLong /\ ~indexed))
    /\ [][(result'.op = "cardFundDeployInit" /\ result'.tag \in InitRejections) =>
            UNCHANGED <<balance, accountsCreated, authAddr, cardFundsSetup, optedIn,
                        holding, cardFunds, partnerCardFundOwner>>]_vars

\* alice, who holds a card fund under the partner channel, was refused a second one
C26_Witness ==
    /\ result = Outcome("cardFundDeployInit", "CARD_FUND_ALREADY_EXISTS")
    /\ accountsCreated = 2
    /\ AddrSeq[1] \in DOMAIN partnerChannels
    /\ AddrSeq[2] \in DOMAIN cardFunds
    /\ cardFunds[AddrSeq[2]].owner = "alice"
    /\ cardFunds[AddrSeq[2]].partnerChannel = AddrSeq[1]
    /\ cardFundsSetup = EmptyMap

\* assets the Master is opted in to: the allow-list
Allowlist == {a \in AssetIds : IsOptedInToAsset(MasterAddr, a)}

\* C27: assetAllowlistAdd and assetAllowlistRemove fail with SENDER_NOT_ALLOWED for
\* every sender but the contract owner.  The owner's add fails with
\* ASSET_ALREADY_OPTED_IN for an asset on the allow-list and otherwise accepts exactly
\* the payment getAssetAllowlistMbr; the owner's remove succeeds exactly for an
\* allow-listed asset of which the Master holds zero units.  A successful remove closes
\* the Master's asset slot, deletes the asset's settlement-address record and pays
\* getAssetAllowlistMbr back, so the Master's Algo balance is always its own minimum
\* balance plus the box deposits plus one getAssetAllowlistMbr per allow-listed asset:
\* add followed by remove leaves it unchanged.
C27_AssetAllowlist ==
    /\ [](/\ \A u \in AllowlistUsers, asset \in AssetIds, pay \in {0, getAssetAllowlistMbr} :
                /\ u # owner =>
                    /\ assetAllowlistAddError(u, pay, asset) = "SENDER_NOT_ALLOWED"
                    /\ assetAllowlistRemoveError(u, asset) = "SENDER_NOT_ALLOWED"
                /\ (u = owner /\ asset \in Allowlist) =>
                    assetAllowlistAddError(u, pay, asset) = "ASSET_ALREADY_OPTED_IN"
                /\ (u = owner /\ asset \notin Allowlist) =>
                    (assetAllowlistAddError(u, pay, asset) = "OK") = (pay = getAssetAllowlistMbr)
                /\ u = owner =>
                    (assetAllowlistRemoveError(u, asset) = "OK")
                        = (asset \in Allowlist /\ holding[<<MasterAddr, asset>>] = 0)
          /\ Allowlist \subseteq DOMAIN settlementAddress
          /\ balance[MasterAddr]
                = MinBalance + BoxDeposits + getAssetAllowlistMbr * Cardinality(Allowlist))
    /\ [][/\ result' = Outcome("assetAllowlistAdd", "OK") =>
                /\ balance'[MasterAddr] = balance[MasterAddr] + getAssetAllowlistMbr
                /\ balance'[owner] = balance[owner] - getAssetAllowlistMbr
                /\ \E asset \in AssetIds \ Allowlist :
                    /\ Allowlist' = Allowlist \cup {asset}
                    /\ holding'[<<MasterAddr, asset>>] = 0
          /\ result' = Outcome("assetAllowlistRemove", "OK") =>
                /\ balance'[MasterAddr] = balance[MasterAddr] - getAssetAllowlistMbr
                /\ balance'[owner] = balance[owner] + getAssetAllowlistMbr
                /\ \E asset \in Allowlist :
                    /\ holding[<<MasterAddr, asset>>] = 0
                    /\ Allowlist' = Allowlist \ {asset}
                    /\ asset \in DOMAIN settlementAddress
                    /\ DOMAIN settlementAddress' = DOMAIN settlementAddress \ {asset}
          /\ (result'.op \in {"assetAllowlistAdd", "assetAllowlistRemove"}
                    /\ result'.tag # "OK") =>
                UNCHANGED <<holding, settlementAddress, balance>>]_vars

\* the owner removed asset 1 after units of it had passed through the Master, and the
\* Master's Algo balance is what it was before the asset was added
C27_Witness ==
    /\ result = Outcome("assetAllowlistRemove", "OK")
    /\ Allowlist = {}
    /\ settlementAddress = EmptyMap
    /\ settlementNonce >= 1
    /\ balance[MasterAddr] = MinBalance + BoxDeposits

\* C28: cardFundDeployComplete succeeds only if the partner channel named in the Setup
\* record still has a PartnerChannel record at finalize time: every card fund a
\* successful finalize registers names a partner channel that has a record.
C28_ChannelRevalidatedAtFinalize ==
    [][result' = Outcome("cardFundDeployComplete", "OK") =>
            \A f \in DOMAIN cardFunds' \ DOMAIN cardFunds :
                cardFunds'[f].partnerChannel \in DOMAIN partnerChannels]_vars

\* C29: the partnerChannel field of every active CardFund record is the address of an
\* existing PartnerChannel record.
C29_CardFundsUnderExistingChannel ==
    \A f \in DOMAIN cardFunds : cardFunds[f].partnerChannel \in DOMAIN partnerChannels

\* C30: cardFundExecutePermissionlessWithdrawal(cardFund, amount) by the owner of a
\* stored request fails with AMOUNT_INVALID when amount exceeds the requested amount.
\* For every amount from 0 up to the requested amount it succeeds when the request's
\* nonce is still the next one, the cooling-off period has passed, the fund holds the
\* amount and the owner can receive the asset; it then moves exactly amount units of the requested asset from the fund
\* to the owner (nothing for amount 0), logs that amount, sets withdrawalNonce to the
\* request's nonce and deletes the request, so that a further execute fails (with
\* WITHDRAWAL_REQUEST_NOT_FOUND for an owner that is still opted in) until a new
\* request is made.
C30_ExecutePermissionlessWithdrawal ==
    /\ [](\A f \in DOMAIN cardFunds, amount \in Amounts :
            LET u == cardFunds[f].owner IN
            (u \in optedIn /\ <<u, f>> \in DOMAIN withdrawals) =>
                LET request == withdrawals[<<u, f>>]
                    err == cardFundExecutePermissionlessWithdrawalError(u, "NoOp", f, amount)
                IN
                /\ amount > request.amount => err = "AMOUNT_INVALID"
                /\ (/\ amount <= request.amount
                    /\ request.nonce = cardFunds[f].withdrawalNonce + 1
                    /\ now >= request.createdAt + withdrawalWaitTime
                    /\ assetBalance(f, request.asset) >= amount
                    /\ IsOptedInToAsset(u, request.asset)) => err = "OK"
                /\ err = "OK" => amount <= request.amount)
    /\ [][result' = Outcome("cardFundExecutePermissionlessWithdrawal", "OK") =>
            \E k \in DOMAIN withdrawals, amount \in Amounts, u \in Users, f \in Addrs :
                /\ k = <<u, f>>
                /\ cardFunds[f].owner = u
                /\ amount <= withdrawals[k].amount
                /\ holding' = Transfer(holding, f, u, withdrawals[k].asset, amount)
                /\ amount = 0 => holding' = holding
                /\ Len(withdrawalEvents') = Len(withdrawalEvents) + 1
                /\ withdrawalEvents'[Len(withdrawalEvents')].amount = amount
                /\ withdrawalEvents'[Len(withdrawalEvents')].asset = withdrawals[k].asset
                /\ withdrawalEvents'[Len(withdrawalEvents')].recipient = u
                /\ cardFunds'[f].withdrawalNonce = cardFunds[f].withdrawalNonce + 1
                /\ k \notin DOMAIN withdrawals'
                /\ \A again \in Amounts :
                    /\ cardFundExecutePermissionlessWithdrawalError(u, "NoOp", f, again)' # "OK"
                    /\ u \in optedIn' =>
                        cardFundExecutePermissionlessWithdrawalError(u, "NoOp", f, again)'
                            = "WITHDRAWAL_REQUEST_NOT_FOUND"]_vars

\* alice executed part of her request: 1 of the 2 units she had requested reached
\* her, the rest is still in the card fund and no request is left
C30_Witness ==
    /\ result = Outcome("cardFundExecutePermissionlessWithdrawal", "OK")
    /\ Len(withdrawalEvents) = 1
    /\ withdrawalEvents[1].amount = 1
    /\ holding[<<FundsCardFund, 1>>] = 1
    /\ cardFunds[FundsCardFund].paymentNonce = 0
    /\ cardFunds[FundsCardFund].withdrawalNonce = 1
    /\ withdrawals = EmptyMap

\* C31: partnerChannelDeployInit with a name longer than 32 fails with
\* PARTNER_CHANNEL_NAME_TOO_LONG and has no effect: after the failed call no
\* sub-account exists, no payment was made and no Setup record is stored, although the
\* length is checked after the sub-account was created and funded.  A call with the
\* right payment and a name of length 0..32 is accepted and stores that name's length.
C31_NameTooLong ==
    /\ [](\A u \in DepositUsers, oc \in {"NoOp", "OptIn"}, n \in NameLens :
            (oc = "OptIn") = (u \notin optedIn) =>
                /\ n > 32 =>
                    partnerChannelDeployInitError(u, oc, MinBalance, n)
                        = "PARTNER_CHANNEL_NAME_TOO_LONG"
                /\ n <= 32 => partnerChannelDeployInitError(u, oc, MinBalance, n) = "OK")
    /\ [][/\ result' = Outcome("partnerChannelDeployInit", "PARTNER_CHANNEL_NAME_TOO_LONG") =>
                UNCHANGED <<accountsCreated, authAddr, balance, partnerChannelsSetup, optedIn,
                            partnerChannels, partnerChannelsActiveCount>>
          /\ result' = Outcome("partnerChannelDeployInit", "OK") =>
                \E k \in DOMAIN partnerChannelsSetup' \ DOMAIN partnerChannelsSetup :
                    /\ partnerChannelsSetup'[k].partnerChannelName \in 0..32
                    /\ k[2] \in DOMAIN authAddr' \ DOMAIN authAddr
                    /\ balance'[k[2]] = MinBalance]_vars

\* the first init call named a too long name: it was refused and the ledger is as it
\* was after deployment
C31_Witness ==
    /\ result = Outcome("partnerChannelDeployInit", "PARTNER_CHANNEL_NAME_TOO_LONG")
    /\ accountsCreated = 0
    /\ DOMAIN authAddr = {}
    /\ partnerChannelsSetup = EmptyMap
    /\ optedIn = {}
    /\ balance["owner"] = InitialAlgo
    /\ balance[MasterAddr] = MinBalance

\* C32: every sub-account that has a Setup record or an active record is
\* controlled by the Master (its auth address is the Master's address), so the
\* control checks of the finalize steps never fail through the Master's own
\* operations; a call rejected with INVALID_PARTNER_ADDRESS or
\* INVALID_CARD_ADDRESS writes no record.
RecordedSubAccounts ==
    {k[2] : k \in DOMAIN partnerChannelsSetup \cup DOMAIN cardFundsSetup}
        \cup DOMAIN partnerChannels \cup DOMAIN cardFunds

ControlRejections ==
    {Outcome("partnerChannelDeployComplete", "INVALID_PARTNER_ADDRESS"),
     Outcome("cardFundDeployComplete", "INVALID_CARD_ADDRESS")}

C32_SubAccountsControlled ==
    /\ [](/\ \A a \in RecordedSubAccounts : a \in DOMAIN authAddr /\ authAddr[a] = MasterAddr
          /\ result \notin ControlRejections
          /\ \A u \in RegistryUsers, oc \in {"NoOp", "CloseOut"}, pay \in RegistryPayAmounts, a \in Addrs :
                /\ partnerChannelDeployCompleteError(u, oc, pay, a) # "INVALID_PARTNER_ADDRESS"
                /\ cardFundDeployCompleteError(u, oc, pay, a) # "INVALID_CARD_ADDRESS")
    /\ [][result' \in ControlRejections =>
            UNCHANGED <<partnerChannelsSetup, partnerChannels, partnerChannelsActiveCount,
                        cardFundsSetup, cardFunds, cardFundsActiveCount,
                        partnerCardFundOwner, authAddr, balance>>]_vars

C32_Witness ==
    /\ result = Outcome("cardFundDeployComplete", "OK")
    /\ DOMAIN cardFunds # {}
    /\ DOMAIN partnerChannels # {}
    /\ \A a \in DOMAIN cardFunds \cup DOMAIN partnerChannels : authAddr[a] = MasterAddr

\* storage cost of a box with the given key and value sizes in bytes
BoxCost(keyBytes, valueBytes) == 2500 + 400 * (keyBytes + valueBytes)

\* the CardFund box (prefix + address key; three addresses, two counters, offset, length
\* and r bytes of reference) and the index box (prefix + hash key; one address)
CardFundDeposit(r) ==
    BoxCost(2 + 32, 32 + 32 + 32 + 8 + 8 + 2 + 2 + r) + BoxCost(2 + 32, 32)

AssetTotal(h, asset) ==
    LET keys == {k \in DOMAIN h : k[2] = asset} IN
    SumOver([k \in keys |-> h[k]], keys)

\* h2 is h after exactly `amount` units of `asset` went from one account to another
MovedExactly(h, h2, from, to, asset, amount) ==
    /\ DOMAIN h2 = DOMAIN h
    /\ <<from, asset>> \in DOMAIN h
    /\ <<to, asset>> \in DOMAIN h
    /\ from # to
    /\ h2[<<from, asset>>] = h[<<from, asset>>] - amount
    /\ h2[<<to, asset>>] = h[<<to, asset>>] + amount
    /\ \A k \in DOMAIN h \ {<<from, asset>>, <<to, asset>>} : h2[k] = h[k]

\* C34: for each asset, the total held by the card funds, the Master's holding
\* account, the settlement address and the users is the same before and after every
\* operation; a successful debit, refund, settle or withdrawal execution either
\* moves nothing (amount 0) or moves exactly its amount from one source account to
\* one destination account.
C34_AssetTotalConserved ==
    /\ [](AssetTotal(holding, 1) = MaxAmount /\ AssetTotal(holding, 2) = 0)
    /\ [][/\ \A asset \in AssetIds : AssetTotal(holding', asset) = AssetTotal(holding, asset)
          /\ (result'.op \in TransferOps /\ result'.tag = "OK") =>
                \/ holding' = holding
                \/ \E from \in Addrs \cup {MasterAddr}, to \in Addrs \cup Users \cup {MasterAddr, SettlementSink},
                      asset \in AssetIds, amount \in 1..MaxAmount :
                        MovedExactly(holding, holding', from, to, asset, amount)]_vars

\* after a debit, a settlement and a withdrawal the units of asset 1 are spread over
\* the settlement address, the card fund and its owner
C34_Witness ==
    /\ result.op \in ExecuteOps /\ result.tag = "OK"
    /\ holding[<<SettlementSink, 1>>] > 0
    /\ holding[<<"alice", 1>>] \in 1..(MaxAmount - 1)
    /\ holding[<<"alice", 1>>] + holding[<<SettlementSink, 1>>] + holding[<<MasterAddr, 1>>]
            + holding[<<FundsCardFund, 1>>] = MaxAmount

\* C35: the three nonce counters are independent.  A successful cardFundDebit or
\* cardFundRefund adds 1 to the paymentNonce of the targeted card fund and changes
\* nothing else in any CardFund record (no withdrawalNonce, no other fund's
\* paymentNonce), nor settlementNonce, nor any pending withdrawal request; a
\* successful withdrawal execution leaves every paymentNonce and settlementNonce
\* unchanged; a successful settle adds 1 to settlementNonce and leaves every
\* CardFund record unchanged.
C35_NoncesIndependent ==
    [][/\ (result'.op \in {"cardFundDebit", "cardFundRefund"} /\ result'.tag = "OK") =>
            /\ \E f \in DOMAIN cardFunds :
                    cardFunds' = [cardFunds EXCEPT ![f].paymentNonce = cardFunds[f].paymentNonce + 1]
            /\ settlementNonce' = settlementNonce
            /\ withdrawals' = withdrawals
       /\ (result'.op \in ExecuteOps /\ result'.tag = "OK") =>
            /\ DOMAIN cardFunds' = DOMAIN cardFunds
            /\ \A f \in DOMAIN cardFunds : cardFunds'[f].paymentNonce = cardFunds[f].paymentNonce
            /\ settlementNonce' = settlementNonce
       /\ (result'.op = "settle" /\ result'.tag = "OK") =>
            /\ cardFunds' = cardFunds
            /\ settlementNonce' = settlementNonce + 1
            /\ withdrawals' = withdrawals]_vars

\* two card funds whose payment counters differ from each other, from the withdrawal
\* counter of the first and from the settlement counter, with a request pending
C35_Witness ==
    /\ NonceCardFunds \subseteq DOMAIN cardFunds
    /\ cardFunds[FundsCardFund].paymentNonce = 2
    /\ cardFunds[SecondCardFund].paymentNonce = 1
    /\ cardFunds[FundsCardFund].withdrawalNonce = 1
    /\ cardFunds[SecondCardFund].withdrawalNonce = 0
    /\ settlementNonce = 1
    /\ withdrawals # EmptyMap
    /\ result = Outcome("cardFundDebit", "OK")

\* C36: a pending withdrawal request reserves no funds.  While a request is pending
\* and its release time has not come, a cardFundDebit by the settler with the
\* expected nonce succeeds for every amount up to the card fund's balance, also when
\* what remains is less than the requested amount, and leaves the request as it is.
\* Once the release time has come, an execute by the owner for an amount within the
\* request but above the card fund's balance fails and changes neither the request
\* nor withdrawalNonce, and an execute for an amount within both succeeds.
C36_RequestReservesNothing ==
    /\ [](\A k \in DOMAIN withdrawals :
            LET u == k[1]
                f == k[2]
                request == withdrawals[k]
                released == now >= request.createdAt + withdrawalWaitTime IN
            (f \in DOMAIN cardFunds /\ cardFunds[f].owner = u /\ u \in optedIn
                    /\ IsOptedInToAsset(f, request.asset)) =>
                /\ (~released /\ ~paused /\ IsOptedInToAsset(MasterAddr, request.asset)) =>
                        \A amt \in Amounts :
                            amt <= holding[<<f, request.asset>>] =>
                                cardFundDebitError(settlerRoleAddress, f, request.asset, amt,
                                                   cardFunds[f].paymentNonce + 1) = "OK"
                /\ (released /\ request.nonce = cardFunds[f].withdrawalNonce + 1
                        /\ IsOptedInToAsset(u, request.asset)) =>
                        \A amt \in Amounts :
                            amt <= request.amount =>
                                /\ amt > holding[<<f, request.asset>>] =>
                                      cardFundExecutePermissionlessWithdrawalError(u, "NoOp", f, amt)
                                            = "TRANSFER_REJECTED"
                                /\ amt <= holding[<<f, request.asset>>] =>
                                      cardFundExecutePermissionlessWithdrawalError(u, "NoOp", f, amt)
                                            = "OK")
    /\ [][/\ result' = Outcome("cardFundDebit", "OK") => withdrawals' = withdrawals
          /\ (result'.op = "cardFundExecutePermissionlessWithdrawal" /\ result'.tag # "OK") =>
                UNCHANGED <<withdrawals, cardFunds, holding>>]_vars

\* the request for everything was stored under a day's cooling-off, a debit then took
\* part of the balance, and the execute of the full amount after the release time failed
C36_Witness ==
    /\ result = Outcome("cardFundExecutePermissionlessWithdrawal", "TRANSFER_REJECTED")
    /\ withdrawalWaitTime = 86400
    /\ <<"alice", FundsCardFund>> \in DOMAIN withdrawals
    /\ withdrawals[<<"alice", FundsCardFund>>].amount = MaxAmount
    /\ withdrawals[<<"alice", FundsCardFund>>].createdAt = 1000
    /\ now = 87400
    /\ holding[<<FundsCardFund, 1>>] = MaxAmount - 1
    /\ holding[<<MasterAddr, 1>>] = 1
    /\ cardFunds[FundsCardFund].paymentNonce = 1
    /\ cardFunds[FundsCardFund].withdrawalNonce = 0

\* C37: the cooling-off period of a pending request is the value of
\* withdrawalWaitTime at the time of the execute call.  The wait time is 0 after
\* deployment and changes only by a successful setWithdrawalTimeout, which leaves the
\* stored requests as they are; an execute by the owner that passes every other check
\* succeeds exactly when the block time has reached the request's creation time plus
\* the current withdrawalWaitTime, and fails with WITHDRAWAL_TIME_INVALID before.
C37_WaitTimeReadAtExecute ==
    /\ withdrawalWaitTime = 0
    /\ [](\A k \in DOMAIN withdrawals :
            LET u == k[1]
                f == k[2]
                request == withdrawals[k] IN
            (/\ f \in DOMAIN cardFunds /\ cardFunds[f].owner = u /\ u \in optedIn
             /\ request.nonce = cardFunds[f].withdrawalNonce + 1
             /\ IsOptedInToAsset(f, request.asset) /\ IsOptedInToAsset(u, request.asset)) =>
                \A amt \in Amounts :
                    (amt <= request.amount /\ amt <= holding[<<f, request.asset>>]) =>
                        /\ now >= request.createdAt + withdrawalWaitTime =>
                              cardFundExecutePermissionlessWithdrawalError(u, "NoOp", f, amt) = "OK"
                        /\ now < request.createdAt + withdrawalWaitTime =>
                              cardFundExecutePermissionlessWithdrawalError(u, "NoOp", f, amt)
                                    = "WITHDRAWAL_TIME_INVALID")
    /\ [][/\ withdrawalWaitTime' # withdrawalWaitTime =>
                result' = Outcome("setWithdrawalTimeout", "OK")
          /\ result' = Outcome("setWithdrawalTimeout", "OK") =>
                UNCHANGED <<withdrawals, cardFunds, holding, now>>
          /\ result' = Outcome("cardFundInitPermissionlessWithdrawal", "OK") =>
                /\ withdrawalWaitTime' = withdrawalWaitTime
                /\ \A k \in DOMAIN withdrawals' \ DOMAIN withdrawals :
                        withdrawals'[k].createdAt = now]_vars

\* a request stored at time 0 became executable at once; the contract owner's
\* setWithdrawalTimeout of a day has just delayed it
C37_Witness ==
    /\ result = Outcome("setWithdrawalTimeout", "OK")
    /\ withdrawalWaitTime = 86400
    /\ now = 1000
    /\ <<"alice", FundsCardFund>> \in DOMAIN withdrawals
    /\ withdrawals[<<"alice", FundsCardFund>>].createdAt = 1000
    /\ withdrawals[<<"alice", FundsCardFund>>].amount = MaxAmount
    /\ cardFundExecutePermissionlessWithdrawalError("alice", "NoOp", FundsCardFund, MaxAmount)
            = "WITHDRAWAL_TIME_INVALID"

\* the operations of a card fund's owner
OwnerOps ==
    {"cardFundInitPermissionlessWithdrawal", "cardFundWithdrawalCancel",
     "cardFundExecutePermissionlessWithdrawal", "cardFundExecuteApprovedWithdrawal",
     "cardFundClose"}

\* C38: pausing does not block the card-fund owner.  Whether and how
\* cardFundInitPermissionlessWithdrawal, cardFundWithdrawalCancel,
\* cardFundExecutePermissionlessWithdrawal, cardFundExecuteApprovedWithdrawal and
\* cardFundClose are rejected is the same, for every caller and argument, before and
\* after the pauser switches the pause flag, and none of them is ever rejected with
\* PAUSED; cardFundDebit, cardFundRefund and settle are rejected with PAUSED exactly
\* while the contract is paused.
C38_PauseSparesOwner ==
    /\ [](/\ result.op \in OwnerOps => result.tag # "PAUSED"
          /\ \A u \in Users, f \in Addrs, asset \in AssetIds, amt \in PauseAmounts, n \in Nonces :
                /\ paused <=> cardFundDebitError(u, f, asset, amt, n) = "PAUSED"
                /\ paused <=> cardFundRefundError(u, f, asset, amt, n) = "PAUSED"
                /\ paused <=> settleError(u, asset, amt, n) = "PAUSED")
    /\ [][(result' = Outcome("setPaused", "OK") /\ paused' # paused) =>
            \A u \in {"owner", "alice"}, f \in ProvisionedAddrs, amt \in PauseAmounts :
                /\ \A oc \in {"NoOp", "OptIn"} :
                        cardFundInitPermissionlessWithdrawalError(u, oc, f, 1, amt)'
                            = cardFundInitPermissionlessWithdrawalError(u, oc, f, 1, amt)
                /\ cardFundWithdrawalCancelError(u, f)' = cardFundWithdrawalCancelError(u, f)
                /\ \A oc \in {"NoOp", "CloseOut"} :
                        cardFundExecutePermissionlessWithdrawalError(u, oc, f, amt)'
                            = cardFundExecutePermissionlessWithdrawalError(u, oc, f, amt)
                /\ \A n \in Nonces, k \in {"settler", "alice"} :
                        LET sig == SignatureFor(k, ApprovedWithdrawalRequest(f, u, 1, amt, 87400,
                                                                             n, GenesisHash)) IN
                        cardFundExecuteApprovedWithdrawalError(u, f, 1, amt, 87400, n, sig)'
                            = cardFundExecuteApprovedWithdrawalError(u, f, 1, amt, 87400, n, sig)
                /\ cardFundCloseError(u, f)' = cardFundCloseError(u, f)]_vars

\* alice has withdrawn everything from her card fund and closed its asset holding, and
\* her cardFundClose has succeeded while the contract was paused
C38_Witness ==
    /\ paused
    /\ result = Outcome("cardFundClose", "OK")
    /\ cardFunds = EmptyMap
    /\ holding[<<"alice", 1>>] = MaxAmount
    /\ holding[<<MasterAddr, 1>>] = 0

\* C39: in every reachable state every stored permissionless withdrawal request
\* refers to an existing CardFund record whose owner is the account holding the
\* request; cardFundClose leaves no request for the closed card fund behind.
C39_RequestsReferToOwnedFunds ==
    \A k \in DOMAIN withdrawals :
        /\ k[2] \in DOMAIN cardFunds
        /\ cardFunds[k[2]].owner = k[1]

\* a request left behind by cardFundClose can be neither cancelled nor executed
C39_StaleRequestIsStuck ==
    \A k \in DOMAIN withdrawals :
        k[2] \notin DOMAIN cardFunds =>
            /\ cardFundWithdrawalCancelError(k[1], k[2]) = "CARD_FUND_NOT_FOUND"
            /\ \A amt \in Amounts :
                    cardFundExecutePermissionlessWithdrawalError(k[1], "NoOp", k[2], amt)
                        = "CARD_FUND_NOT_FOUND"

\* C40: in every reachable state a settlement-address record exists for an asset
\* if and only if the asset is on the allowlist, that is, the Master's holding
\* account is opted in to it; setSettlementAddress changes the address of an
\* allow-listed asset and creates no record for an asset that was never added or was
\* removed.
C40_RecordIffAllowlisted ==
    \A asset \in AssetIds :
        asset \in DOMAIN settlementAddress <=> IsOptedInToAsset(MasterAddr, asset)

\* without setSettlementAddress the records follow the allowlist: every other
\* operation keeps record and opt-in together
C40_OnlySetSettlementAddressBreaksIt ==
    [][(result'.op # "setSettlementAddress") =>
        \A asset \in AssetIds :
            (asset \in DOMAIN settlementAddress <=> IsOptedInToAsset(MasterAddr, asset))
                => (asset \in DOMAIN settlementAddress' <=> IsOptedInToAsset(MasterAddr, asset)')]_vars

====
